---------------------------- MODULE Spec2Model ----------------------------
(***************************************************************************)
(* Pi-hole FTL: the in-memory query ledger, its aggregate tables, the      *)
(* overTime histogram, the housekeeper thread (rate-limit decay and        *)
(* garbage collection, src/src/gc.c) and the history endpoints             *)
(* (src/src/api/history.c), as one state machine.                          *)
(*                                                                         *)
(* Time is counted in coarse units; array indices are those of the C code  *)
(* (0-based), so the shared arrays are functions over 0..N-1.              *)
(***************************************************************************)
EXTENDS Integers, Sequences, FiniteSets, TLC

(***************************************************************************)
(* Bounds of the model                                                     *)
(***************************************************************************)
\* capacity of the ledger given to counters->queries_MAX by Init
MaxQueries == 2
\* time(NULL) when the housekeeper thread starts
StartTime == 4
\* how long the clock runs after StartTime
Duration == 5
\* config.database.maxHistory, in time units
maxHistory == 2
\* config.dns.rateLimit.count
rateLimitCount == 1
\* config.dns.rateLimit.interval, in time units
rateLimitInterval == 2
\* config.misc.check.disk: the usage above which a storage shortage is reported
checkDisk == 1
\* get_nprocs(): the number of processors
nprocs == 1
\* api.h: the number of session slots
API_MAX_CLIENTS == 2
\* api.h: the number of challenge slots
API_MAX_CHALLENGES == 2
\* api.h: how long a challenge is valid, in time units
API_CHALLENGE_TIMEOUT == 1
\* config.webserver.sessionTimeout, in time units
sessionTimeout == 1
\* how many random values (challenges, session IDs) are drawn
MaxRandom == 5

MaxTime == StartTime + Duration

(***************************************************************************)
(* Program constants                                                       *)
(***************************************************************************)
\* gc.h: the grace period subtracted from now
GCdelay == 1
\* gc.c: resource checking interval, in seconds
RCinterval == 300
\* api.h: return value of check_client_auth for a request that is not authorized
API_AUTH_UNAUTHORIZED == -1
\* api.h: check_client_auth for a request from localhost that needs no session
API_AUTH_LOCALHOST == -2
\* api.h: check_client_auth when no password is set
API_AUTH_EMPTYPASS == -3
\* enums.h: privacy levels
PRIVACY_SHOW_ALL == 0
PRIVACY_HIDE_DOMAINS_CLIENTS == 2

\* enum query_status, as far as runGC's switch names it
QueryStatuses ==
    { "UNKNOWN", "GRAVITY", "FORWARDED", "CACHE", "REGEX", "DENYLIST",
      "EXTERNAL_BLOCKED_IP", "EXTERNAL_BLOCKED_NULL", "EXTERNAL_BLOCKED_NXRA",
      "GRAVITY_CNAME", "REGEX_CNAME", "DENYLIST_CNAME", "RETRIED",
      "RETRIED_DNSSEC", "IN_PROGRESS", "DBBUSY", "SPECIAL_DOMAIN",
      "CACHE_STALE" }

\* the case labels of runGC's switch that lower the blocked counters
BlockedStatuses ==
    { "GRAVITY", "DENYLIST", "REGEX", "EXTERNAL_BLOCKED_IP",
      "EXTERNAL_BLOCKED_NXRA", "EXTERNAL_BLOCKED_NULL", "GRAVITY_CNAME",
      "REGEX_CNAME", "DENYLIST_CNAME", "DBBUSY", "SPECIAL_DOMAIN" }

\* the statuses counted in a bucket's cached counter
CachedStatuses == { "CACHE", "CACHE_STALE" }

IsBlocked(status) == status \in BlockedStatuses

IsCached(status) == status \in CachedStatuses

\* enum reply_type and enum query_type, as far as the model's queries use them
ReplyTypes == { "REPLY_IP", "REPLY_NXDOMAIN" }

\* "TYPE_OTHER_NUM" stands for a query type >= TYPE_MAX, which has no counter
QueryTypes == { "TYPE_A", "TYPE_OTHER_NUM" }

CountedQueryTypes == { "TYPE_A" }

(***************************************************************************)
(* The tables: three clients, the second managed by the third, which is    *)
(* an alias client; two domains.                                           *)
(***************************************************************************)
ClientIDs == { 0, 1, 2 }

DomainIDs == { 0, 1 }

\* clientsData.flags.aliasclient
IsAliasClient(c) == c = 2

\* clientsData.aliasclient_id
aliasclient_id(c) == IF c = 1 THEN 2 ELSE -1

\* the clients that send queries
RealClients == { c \in ClientIDs : ~IsAliasClient(c) }

Readers == { "r1" }

VARIABLES
    config,                \* the settings read from pihole.toml
    clock,                 \* time(NULL)
    queries,               \* the ledger: queriesData[0 .. queries_MAX-1]
    counters,              \* countersStruct: queries, queries_MAX, status, reply, querytype
    overTime,              \* overTimeData[0 .. OVERTIME_SLOTS-1]
    clients,               \* clientsData[0 .. counters->clients-1]
    domains,               \* domainsData
    lock,                  \* owner of the store lock, or "free"
    doGC,                  \* gc.c: bool doGC
    gcpc,                  \* position of the housekeeper thread
    now,                   \* GC_thread: const time_t now
    lastGCrun,             \* GC_thread: time_t lastGCrun
    lastRateLimitCleaner,  \* gc.c: static time_t lastRateLimitCleaner
    mintime,               \* runGC: time_t mintime
    gci,                   \* runGC: long int i
    removed,               \* runGC: int removed
    dbRequests,            \* the records delete_query_from_db was called for in this pass
    dbFailed,              \* a delete_query_from_db call of this pass has failed
    passStart,             \* history: counters->queries when the running pass took the lock
    lost,                  \* the ledger slots getQuery returns NULL for (their magic byte is damaged)
    notFound,              \* the client and domain IDs getClient and getDomain return NULL for
    killed,                \* global variable killed: FTL is shutting down
    thread_running,        \* thread_running[GC]
    lastResourceCheck,     \* GC_thread: time_t lastResourceCheck
    LastUsage,             \* GC_thread: LastDBStorageUsage ("db") and LastLogStorageUsage ("log")
    sampled,               \* history: what the last resource check has sampled, -1 where nothing
    shortage,              \* history: the shortages the last resource check has reported
    auth_data,             \* auth_data[0 .. API_MAX_CLIENTS-1]: the sessions
    challenges,            \* challenges[0 .. API_MAX_CHALLENGES-1]
    drawn,                 \* how many random values random() has given
    authReply,             \* the last request to the API's authentication and its answer
    accepted,              \* history: the responses check_response has accepted
    ppc,                   \* position of the resolver (producer)
    rpc,                   \* position of each API worker
    reply,                 \* what each API worker has sent
    privacySeen,           \* the config.misc.privacylevel a worker has read, -1 when it has read none
    gcDone,                \* history: "evicted" or "kept" once a pass has completed, "no" once the next begins
    windowAppend,          \* history: an append fell into a lock-release window of the pass
    snap,                  \* history: the store as the last pass left it, while untouched
    secondPass,            \* history: the last completed pass found snap intact ("same": and the same horizon)
    quiet,                 \* history: clients with no append since the last decay
    endedQuiet             \* history: the last decay ended the limitation of a quiet client

store == << queries, counters, overTime, clients, domains >>

gcvars == << gcpc, now, lastGCrun, lastRateLimitCleaner, mintime, gci, removed >>

apivars == << rpc, reply, privacySeen >>

dbvars == << dbRequests, dbFailed, passStart, lost, notFound >>

thrvars == << killed, thread_running >>

authvars == << auth_data, challenges, drawn, authReply, accepted >>

resvars == << lastResourceCheck, LastUsage, sampled, shortage >>

histvars == << gcDone, windowAppend, snap, secondPass, quiet, endedQuiet >>

vars == << config, clock, store, lock, doGC, gcvars, dbvars, thrvars, resvars, authvars, ppc,
          apivars, histvars >>

\* the monitored paths: config.files.database and config.files.log.ftl
StoragePaths == { "db", "log" }

\* the build and the configuration: the retention window
\* (config.database.maxHistory), the interval of the garbage collector and the
\* width of a histogram bucket, in time units
Settings == [ maxHistory |-> maxHistory, gcInterval |-> 2, bucketWidth |-> 2 ]

\* gc.h: interval of the garbage collector
GCinterval == config.gcInterval
\* overTime.h: width of one histogram bucket
OVERTIME_INTERVAL == config.bucketWidth
\* overTime.h: number of histogram buckets: the retention window plus slack
OVERTIME_SLOTS == (config.maxHistory + GCdelay + GCinterval) \div OVERTIME_INTERVAL + 2

\* the remainder of C's % operator: it has the sign of the dividend
CRem(a, b) == IF a >= 0 THEN a % b ELSE 0 - ((0 - a) % b)

NoSnap == [ none |-> TRUE ]

NoReply == [ kind |-> "none" ]

SessionSlots == 0 .. (API_MAX_CLIENTS - 1)

ChallengeSlots == 0 .. (API_MAX_CHALLENGES - 1)

\* the empty string, as a session ID, a remote address, a challenge or a response
Empty == 0

\* an entry of auth_data that is not in use: {false, 0, 0, {0}, {0}}
NoSession ==
    [ used |-> FALSE, login_at |-> 0, valid_until |-> 0, remote_addr |-> "", sid |-> Empty ]

\* an entry of challenges that was never filled: {{0}, {0}, 0}
NoChallenge == [ challenge |-> Empty, response |-> Empty, valid_until |-> 0 ]

(***************************************************************************)
(* Records                                                                 *)
(***************************************************************************)
\* a zeroed queriesData slot (QUERY_UNKNOWN = 0)
ZeroQuery ==
    [ timestamp |-> 0, clientID |-> 0, domainID |-> 0, status |-> "UNKNOWN",
      reply |-> "REPLY_IP", type |-> "TYPE_A" ]

\* overTime.c initSlot
initSlot(timestamp) ==
    [ timestamp |-> timestamp, total |-> 0, blocked |-> 0, cached |-> 0 ]

Slots == 0 .. (OVERTIME_SLOTS - 1)

RECURSIVE SumOver(_, _)
\* the sum of f[x] over the finite set S
SumOver(f, S) ==
    IF S = {} THEN 0
    ELSE LET x == CHOOSE y \in S : TRUE
         IN  f[x] + SumOver(f, S \ {x})

(***************************************************************************)
(* overTime.c                                                              *)
(***************************************************************************)
\* getOverTimeID: the bucket of a timestamp
getOverTimeID(timestamp) ==
    (timestamp - overTime[0].timestamp) \div OVERTIME_INTERVAL

\* moveOverTimeMemory: drop the buckets below mintime, append fresh ones
moveOverTimeSlots(ot, min) ==
    LET move == (min - ot[0].timestamp) \div OVERTIME_INTERVAL
    IN  IF move <= 0 THEN ot
        ELSE [ s \in Slots |->
                 IF s + move < OVERTIME_SLOTS THEN ot[s + move]
                 ELSE initSlot(ot[0].timestamp + (s + move) * OVERTIME_INTERVAL) ]

\* moveOverTimeMemory: the same move of every client's overTime array
moveOverTimeClients(cl, ot, min) ==
    LET move == (min - ot[0].timestamp) \div OVERTIME_INTERVAL
    IN  IF move <= 0 THEN cl
        ELSE [ c \in ClientIDs |->
                 [ cl[c] EXCEPT !.overTime =
                     [ s \in Slots |->
                         IF s + move < OVERTIME_SLOTS THEN cl[c].overTime[s + move]
                         ELSE 0 ] ] ]

(***************************************************************************)
(* datastructure.c                                                         *)
(***************************************************************************)
\* change_clientcount applied to one client record
addClientCount(rec, total, blocked, overTimeIdx, overTimeMod) ==
    [ rec EXCEPT !.count = @ + total,
                 !.blockedcount = @ + blocked,
                 !.overTime = IF overTimeIdx \in Slots
                              THEN [ @ EXCEPT ![overTimeIdx] = @ + overTimeMod ]
                              ELSE @ ]

\* change_clientcount: the client itself and the alias client that manages it
change_clientcount(cl, c, total, blocked, overTimeIdx, overTimeMod) ==
    [ x \in ClientIDs |->
        IF x = c \/ (aliasclient_id(c) > -1 /\ x = aliasclient_id(c))
        THEN addClientCount(cl[x], total, blocked, overTimeIdx, overTimeMod)
        ELSE cl[x] ]

\* query_set_status: the status counters
setStatusCounters(cnt, old, new) ==
    IF old = new THEN cnt
    ELSE [ cnt EXCEPT !.status = [ @ EXCEPT ![old] = @ - 1, ![new] = @ + 1 ] ]

\* query_set_status: the blocked and cached counters of the query's bucket
setStatusOverTime(ot, idx, old, new) ==
    IF old = new THEN ot
    ELSE [ ot EXCEPT
             ![idx].blocked = @ - (IF IsBlocked(old) THEN 1 ELSE 0)
                                + (IF IsBlocked(new) THEN 1 ELSE 0),
             ![idx].cached = @ - (IF IsCached(old) THEN 1 ELSE 0)
                               + (IF IsCached(new) THEN 1 ELSE 0) ]

(***************************************************************************)
(* Initial state                                                           *)
(***************************************************************************)
InitStore(capacity) ==
    /\ queries = [ i \in 0 .. (capacity - 1) |-> ZeroQuery ]
    /\ counters = [ queries |-> 0, queries_MAX |-> capacity,
                    status |-> [ s \in QueryStatuses |-> 0 ],
                    reply |-> [ r \in ReplyTypes |-> 0 ],
                    querytype |-> [ t \in CountedQueryTypes |-> 0 ] ]
    /\ overTime = [ s \in Slots |->
                      initSlot(clock - (clock % OVERTIME_INTERVAL)
                               + s * OVERTIME_INTERVAL) ]
    /\ clients = [ c \in ClientIDs |->
                     [ count |-> 0, blockedcount |-> 0,
                       overTime |-> [ s \in Slots |-> 0 ],
                       rate_limit |-> 0, rate_limited |-> FALSE ] ]
    /\ domains = [ d \in DomainIDs |-> [ count |-> 0, blockedcount |-> 0 ] ]

\* the state when GC_thread enters its loop at time start
InitAt(start, capacity, settings, rlCount, rlInterval) ==
    /\ config = [ rateLimitCount |-> rlCount, rateLimitInterval |-> rlInterval,
                  maxHistory |-> settings.maxHistory,
                  gcInterval |-> settings.gcInterval,
                  bucketWidth |-> settings.bucketWidth,
                  checkDisk |-> checkDisk, checkLoad |-> TRUE,
                  localAPIauth |-> FALSE, pwhash |-> TRUE,
                  sessionTimeout |-> sessionTimeout ]
    /\ clock = start
    /\ InitStore(capacity)
    /\ lock = "free"
    /\ doGC = FALSE
    /\ gcpc = "loop"
    /\ now = 0
    /\ lastGCrun = start - (start % GCinterval)
    /\ lastRateLimitCleaner = start
    /\ mintime = 0
    /\ gci = 0
    /\ removed = 0
    /\ dbRequests = << >>
    /\ dbFailed = FALSE
    /\ passStart = 0
    /\ lost = {}
    /\ notFound = [ client |-> {}, domain |-> {} ]
    /\ killed = FALSE
    /\ thread_running = TRUE
    /\ lastResourceCheck = 0
    /\ LastUsage = [ p \in StoragePaths |-> 0 ]
    /\ sampled = [ p \in StoragePaths \cup { "load" } |-> -1 ]
    /\ shortage = [ p \in StoragePaths \cup { "load" } |-> FALSE ]
    /\ auth_data = [ i \in SessionSlots |-> NoSession ]
    /\ challenges = [ i \in ChallengeSlots |-> NoChallenge ]
    /\ drawn = 0
    /\ authReply = NoReply
    /\ accepted = {}
    /\ ppc = "idle"
    /\ rpc = [ r \in Readers |-> "idle" ]
    /\ reply = [ r \in Readers |-> NoReply ]
    /\ privacySeen = [ r \in Readers |-> -1 ]
    /\ gcDone = "no"
    /\ windowAppend = FALSE
    /\ snap = NoSnap
    /\ secondPass = "no"
    /\ quiet = RealClients
    /\ endedQuiet = FALSE

InitWith(rlCount, rlInterval) ==
    InitAt(StartTime, MaxQueries, Settings, rlCount, rlInterval)

\* rate limiting as configured
Init == InitWith(rateLimitCount, rateLimitInterval)

\* rate limiting switched off (dns.rateLimit.count = 0, dns.rateLimit.interval = 0)
InitNoRateLimit == InitWith(0, 0)

(***************************************************************************)
(* The store lock (shmem.c)                                                *)
(***************************************************************************)
\* lock_shm: blocks until the lock is free, then owns it
lock_shm(t) ==
    /\ lock = "free"
    /\ lock' = t

\* unlock_shm
unlock_shm(t) == lock' = "free"

(***************************************************************************)
(* The clock                                                               *)
(***************************************************************************)
\* the last second the histogram window covers
WindowEnd == overTime[OVERTIME_SLOTS - 1].timestamp + OVERTIME_INTERVAL - 1

\* a second passes; the housekeeper keeps the window ahead of the clock
Tick ==
    /\ clock < MaxTime
    /\ clock + 1 <= WindowEnd
    /\ clock' = clock + 1
    /\ UNCHANGED << config, authvars, resvars, thrvars, dbvars, store, lock, doGC, gcvars, ppc, apivars, histvars >>

(***************************************************************************)
(* The resolver: append and status change, each under the store lock       *)
(***************************************************************************)
\* the queries the resolver records: client, domain, status, reply, type
QueryInputs ==
    { << 0, 0, "FORWARDED", "REPLY_IP", "TYPE_A" >>,
      << 1, 1, "GRAVITY", "REPLY_NXDOMAIN", "TYPE_OTHER_NUM" >>,
      << 0, 1, "CACHE", "REPLY_IP", "TYPE_A" >> }

\* the statuses a recorded query is finalized to
StatusInputs == { "CACHE", "REGEX" }

ProdLock ==
    /\ ppc = "idle"
    /\ lock_shm("prod")
    /\ ppc' = "cs"
    /\ UNCHANGED << config, authvars, resvars, thrvars, dbvars, clock, store, doGC, gcvars, apivars, histvars >>

\* the new record and its effect on every aggregate
AppendQuery(c, d, status, rt, qt) ==
    LET idx == getOverTimeID(clock)
        q == [ timestamp |-> clock, clientID |-> c, domainID |-> d,
               status |-> status, reply |-> rt, type |-> qt ]
        blocked == IF IsBlocked(status) THEN 1 ELSE 0
        cached == IF IsCached(status) THEN 1 ELSE 0
        cl == change_clientcount(clients, c, 1, blocked, idx, 1)
        rl == cl[c].rate_limit + (IF config.rateLimitCount > 0 THEN 1 ELSE 0)
    IN  /\ queries' = [ queries EXCEPT ![counters.queries] = q ]
        /\ counters' = [ counters EXCEPT
                           !.queries = @ + 1,
                           !.status[status] = @ + 1,
                           !.reply[rt] = @ + 1,
                           !.querytype = IF qt \in CountedQueryTypes
                                         THEN [ @ EXCEPT ![qt] = @ + 1 ]
                                         ELSE @ ]
        /\ overTime' = [ overTime EXCEPT ![idx].total = @ + 1,
                                         ![idx].blocked = @ + blocked,
                                         ![idx].cached = @ + cached ]
        /\ domains' = [ domains EXCEPT ![d].count = @ + 1,
                                       ![d].blockedcount = @ + blocked ]
        /\ clients' = [ cl EXCEPT ![c].rate_limit = rl,
                                  ![c].rate_limited =
                                      @ \/ (config.rateLimitCount > 0 /\ rl > config.rateLimitCount) ]

\* mutant: the record is stored without looking at the capacity
ProdAppend_NoCapacityCheck(c, d, status, rt, qt) ==
    /\ ppc = "cs"
    /\ AppendQuery(c, d, status, rt, qt)
    /\ unlock_shm("prod")
    /\ ppc' = "idle"
    /\ windowAppend' = (windowAppend \/ gcpc = "gc_del")
    /\ snap' = NoSnap
    /\ quiet' = quiet \ {c}
    /\ endedQuiet' = FALSE
    /\ UNCHANGED << config, authvars, resvars, thrvars, dbvars, clock, doGC, gcvars, apivars, gcDone, secondPass >>

\* a query is answered and recorded
ProdAppend(c, d, status, rt, qt) ==
    /\ ppc = "cs"
    /\ counters.queries < counters.queries_MAX
    /\ AppendQuery(c, d, status, rt, qt)
    /\ unlock_shm("prod")
    /\ ppc' = "idle"
    /\ windowAppend' = (windowAppend \/ gcpc = "gc_del")
    /\ snap' = NoSnap
    /\ quiet' = quiet \ {c}
    /\ endedQuiet' = FALSE
    /\ UNCHANGED << config, authvars, resvars, thrvars, dbvars, clock, doGC, gcvars, apivars, gcDone, secondPass >>

\* the ledger is full: the append is rejected and a GC pass is asked for
ProdFull ==
    /\ ppc = "cs"
    /\ counters.queries >= counters.queries_MAX
    /\ doGC' = TRUE
    /\ unlock_shm("prod")
    /\ ppc' = "idle"
    /\ UNCHANGED << config, authvars, resvars, thrvars, dbvars, clock, store, gcvars, apivars, histvars >>

\* query_set_status on record i
MutateQuery(i, new) ==
    LET q == queries[i]
        idx == getOverTimeID(q.timestamp)
    IN  /\ queries' = [ queries EXCEPT ![i].status = new ]
        /\ counters' = setStatusCounters(counters, q.status, new)
        /\ overTime' = setStatusOverTime(overTime, idx, q.status, new)

\* mutant: the blocked counter of the domain is raised for the new status
\* but not lowered for the old one
mutateDomain_NoRemove(dom, d, old, new) ==
    [ dom EXCEPT ![d].blockedcount = @ + (IF IsBlocked(new) THEN 1 ELSE 0) ]

\* mutate_status: the blocked counter of the query's domain follows the status
mutateDomain(dom, d, old, new) ==
    [ dom EXCEPT ![d].blockedcount = @ - (IF IsBlocked(old) THEN 1 ELSE 0)
                                       + (IF IsBlocked(new) THEN 1 ELSE 0) ]

\* mutate_status: the blocked counter of the query's client follows the status
mutateClient(cl, c, old, new) ==
    change_clientcount(cl, c, 0, (IF IsBlocked(new) THEN 1 ELSE 0)
                                   - (IF IsBlocked(old) THEN 1 ELSE 0), -1, 0)

\* mutate_status on record i: query_set_status and the blocked counters of
\* the record's domain and client
mutate_status(i, new) ==
    /\ MutateQuery(i, new)
    /\ domains' = mutateDomain(domains, queries[i].domainID, queries[i].status, new)
    /\ clients' = mutateClient(clients, queries[i].clientID, queries[i].status, new)

\* the outcome of a recorded query is finalized
ProdMutate(i, new) ==
    /\ ppc = "cs"
    /\ i < counters.queries
    /\ queries[i].status = "FORWARDED"
    /\ mutate_status(i, new)
    /\ unlock_shm("prod")
    /\ ppc' = "idle"
    /\ snap' = NoSnap
    /\ UNCHANGED << config, authvars, resvars, thrvars, dbvars, clock, doGC, gcvars, apivars,
                    gcDone, windowAppend, secondPass, quiet, endedQuiet >>

\* the status of a recorded query is set, whatever it was
ProdMutateAny(i, new) ==
    /\ ppc = "cs"
    /\ i < counters.queries
    /\ mutate_status(i, new)
    /\ unlock_shm("prod")
    /\ ppc' = "idle"
    /\ snap' = NoSnap
    /\ UNCHANGED << config, authvars, resvars, thrvars, dbvars, clock, doGC, gcvars, apivars,
                    gcDone, windowAppend, secondPass, quiet, endedQuiet >>

(***************************************************************************)
(* Configuration reload (pihole.toml is read again)                        *)
(***************************************************************************)
\* the values dns.rateLimit.count is set to
ReloadCounts == { rateLimitCount, rateLimitCount + 1 }

\* readFTLtoml: dns.rateLimit.count takes the value found in the file
ConfigReload(count) ==
    /\ lock = "free"
    /\ count # config.rateLimitCount
    /\ config' = [ config EXCEPT !.rateLimitCount = count ]
    /\ UNCHANGED << authvars, resvars, thrvars, dbvars, clock, store, lock, doGC, gcvars, ppc, apivars,
                    histvars >>

(***************************************************************************)
(* The housekeeper thread (gc.c)                                           *)
(***************************************************************************)
\* mutant: the counter is not reset
resetClient_KeepCount(rec) ==
    [ rec EXCEPT !.rate_limited = IF @ THEN rec.rate_limit > config.rateLimitCount ELSE FALSE ]

\* mutant: a count equal to the threshold keeps the client limited
resetClient_AtLeast(rec) ==
    [ rec EXCEPT !.rate_limited = IF @ THEN rec.rate_limit >= config.rateLimitCount ELSE FALSE,
                 !.rate_limit = 0 ]

\* reset_rate_limiting: one client
resetClient(rec) ==
    [ rec EXCEPT !.rate_limited = IF @ THEN rec.rate_limit > config.rateLimitCount ELSE FALSE,
                 !.rate_limit = 0 ]

\* reset_rate_limiting
reset_rate_limiting(cl) == [ c \in ClientIDs |-> resetClient(cl[c]) ]

\* mutant: the number of windows is rounded up
get_rate_limit_turnaround_RoundUp(rate_limit_count) ==
    LET how_often == (rate_limit_count + config.rateLimitCount - 1) \div config.rateLimitCount
    IN  config.rateLimitInterval * how_often - (clock - lastRateLimitCleaner)

\* get_rate_limit_turnaround: the seconds until the current rate-limiting
\* interval is over, for a client with this count
get_rate_limit_turnaround(rate_limit_count) ==
    LET how_often == rate_limit_count \div config.rateLimitCount
    IN  config.rateLimitInterval * how_often - (clock - lastRateLimitCleaner)

\* GC_thread, top of the loop: read the clock, decide on the rate-limit decay
GCLoopTop ==
    /\ gcpc = "loop"
    /\ ~killed
    /\ now' = clock
    /\ IF /\ config.rateLimitInterval > 0
          /\ clock - lastRateLimitCleaner >= config.rateLimitInterval
       THEN /\ lastRateLimitCleaner' = clock
            /\ gcpc' = "rl_lock"
       ELSE /\ lastRateLimitCleaner' = lastRateLimitCleaner
            /\ gcpc' = "gc_check"
    /\ UNCHANGED << config, authvars, resvars, thrvars, dbvars, clock, store, lock, doGC, lastGCrun, mintime, gci, removed,
                    ppc, apivars, histvars >>

GCRateLimitLock ==
    /\ gcpc = "rl_lock"
    /\ lock_shm("gc")
    /\ gcpc' = "rl_cs"
    /\ UNCHANGED << config, authvars, resvars, thrvars, dbvars, clock, store, doGC, now, lastGCrun, lastRateLimitCleaner,
                    mintime, gci, removed, ppc, apivars, histvars >>

GCRateLimitReset ==
    /\ gcpc = "rl_cs"
    /\ clients' = reset_rate_limiting(clients)
    /\ unlock_shm("gc")
    /\ gcpc' = "gc_check"
    /\ endedQuiet' = (\E c \in quiet : clients[c].rate_limited)
    /\ quiet' = RealClients
    /\ UNCHANGED << config, authvars, resvars, thrvars, dbvars, clock, queries, counters, overTime, domains, doGC, now,
                    lastGCrun, lastRateLimitCleaner, mintime, gci, removed,
                    ppc, apivars, gcDone, windowAppend, snap, secondPass >>

\* FTL is told to shut down
Kill ==
    /\ ~killed
    /\ killed' = TRUE
    /\ UNCHANGED << config, authvars, resvars, thread_running, dbvars, clock, store, lock, doGC, gcvars, ppc,
                    apivars, histvars >>

\* mutant: killed is also tested in the deletion window of a pass
GCTerminate_AtDelete ==
    /\ gcpc \in { "loop", "gc_check", "gc_del" }
    /\ killed
    /\ gcpc' = "done"
    /\ thread_running' = FALSE
    /\ UNCHANGED << config, authvars, resvars, killed, dbvars, clock, store, lock, doGC, now, lastGCrun,
                    lastRateLimitCleaner, mintime, gci, removed, ppc, apivars, histvars >>

\* mutant: the loop is also left in the middle of a pass
GCTerminate_MidPass ==
    /\ gcpc \in { "loop", "gc_check", "gc_scan" }
    /\ killed
    /\ gcpc' = "done"
    /\ thread_running' = FALSE
    /\ UNCHANGED << config, authvars, resvars, killed, dbvars, clock, store, lock, doGC, now, lastGCrun,
                    lastRateLimitCleaner, mintime, gci, removed, ppc, apivars, histvars >>

\* GC_thread: killed is seen at the loop test or at a cancellation point, the
\* loop is left and the thread returns
GCTerminate ==
    /\ gcpc \in { "loop", "gc_check" }
    /\ killed
    /\ gcpc' = "done"
    /\ thread_running' = FALSE
    /\ UNCHANGED << config, authvars, resvars, killed, dbvars, clock, store, lock, doGC, now, lastGCrun,
                    lastRateLimitCleaner, mintime, gci, removed, ppc, apivars, histvars >>

\* what get_filepath_usage and getloadavg can return
UsageInputs == 0 .. (checkDisk + 2)

LoadInputs == 0 .. (nprocs + 1)

\* mutant: equal usage is reported again
check_space_AtLeast(perc, Last) ==
    IF config.checkDisk = 0
    THEN [ perc |-> 0, shortage |-> FALSE ]
    ELSE [ perc |-> perc, shortage |-> perc > config.checkDisk /\ perc >= Last ]

\* check_space: the value returned and whether log_resource_shortage is called
check_space(perc, Last) ==
    IF config.checkDisk = 0
    THEN [ perc |-> 0, shortage |-> FALSE ]
    ELSE [ perc |-> perc, shortage |-> perc > config.checkDisk /\ perc > Last ]

\* check_load: whether log_resource_shortage is called; got is FALSE when
\* getloadavg fails
check_load(load, got) ==
    IF ~config.checkLoad THEN FALSE
    ELSE IF ~got THEN FALSE
    ELSE load > nprocs

\* GC_thread: is a resource check due?
RCdue == now - lastResourceCheck >= RCinterval

\* GC_thread: check_load, check_space of both paths
GCResourceCheck(load, got, db, log) ==
    /\ gcpc = "gc_check"
    /\ RCdue
    /\ LET d == check_space(db, LastUsage["db"])
           l == check_space(log, LastUsage["log"])
       IN  /\ LastUsage' = [ p \in StoragePaths |-> IF p = "db" THEN d.perc ELSE l.perc ]
           /\ shortage' = [ p \in StoragePaths \cup { "load" } |->
                              IF p = "db" THEN d.shortage
                              ELSE IF p = "log" THEN l.shortage
                              ELSE check_load(load, got) ]
    /\ sampled' = [ p \in StoragePaths \cup { "load" } |->
                      IF p = "db" THEN (IF config.checkDisk = 0 THEN -1 ELSE db)
                      ELSE IF p = "log" THEN (IF config.checkDisk = 0 THEN -1 ELSE log)
                      ELSE IF config.checkLoad /\ got THEN load ELSE -1 ]
    /\ lastResourceCheck' = now
    /\ UNCHANGED << config, authvars, thrvars, dbvars, clock, store, lock, doGC, gcvars, ppc, apivars,
                    histvars >>

\* mutant: the force trigger is not looked at
GCdue_TimeOnly == now - GCdelay - lastGCrun >= GCinterval

\* GC_thread: is a pass due?
GCdue == now - GCdelay - lastGCrun >= GCinterval \/ doGC

\* GC_thread: no pass in this round of the loop, sleep
GCSkip ==
    /\ gcpc = "gc_check"
    /\ ~GCdue
    /\ gcpc' = "loop"
    /\ now' = 0
    /\ endedQuiet' = FALSE
    /\ UNCHANGED << config, authvars, resvars, thrvars, dbvars, clock, store, lock, doGC, lastGCrun, lastRateLimitCleaner,
                    mintime, gci, removed, ppc, apivars, gcDone, windowAppend,
                    snap, secondPass, quiet >>

\* mutant: the time of the pass is recorded as it is
GCrunAt_Unaligned(t) == t - GCdelay

\* mutant: the grace period is left out
GCrunAt_NoDelay(t) == t - (t % GCinterval)

\* runGC: the value given to *lastGCrun for a pass started at t
GCrunAt(t) == t - GCdelay - CRem(t - GCdelay, GCinterval)

\* runGC, before the lock is taken
GCStart ==
    /\ gcpc = "gc_check"
    /\ GCdue
    /\ doGC' = FALSE
    /\ lastGCrun' = GCrunAt(now)
    /\ gcpc' = "gc_lock"
    /\ gcDone' = "no"
    /\ endedQuiet' = FALSE
    /\ UNCHANGED << config, authvars, resvars, thrvars, dbvars, clock, store, lock, now, lastRateLimitCleaner, mintime, gci,
                    removed, ppc, apivars, windowAppend, snap, secondPass, quiet >>

\* mutant: the horizon is not aligned
GCmintime_Unaligned(t) == (t - GCdelay) - config.maxHistory

\* runGC: the minimum timestamp to keep
GCmintime(t) ==
    LET m == (t - GCdelay) - config.maxHistory
    IN  m - CRem(m, GCinterval)

\* runGC: lock the store, fix the horizon, start the scan
GCLock ==
    /\ gcpc = "gc_lock"
    /\ lock_shm("gc")
    /\ mintime' = GCmintime(now)
    /\ removed' = 0
    /\ gci' = 0
    /\ gcpc' = "gc_scan"
    /\ windowAppend' = FALSE
    /\ dbRequests' = << >>
    /\ dbFailed' = FALSE
    /\ passStart' = counters.queries
    /\ lost' = lost
    /\ notFound' = notFound
    /\ UNCHANGED << config, authvars, resvars, thrvars, clock, store, doGC, now, lastGCrun, lastRateLimitCleaner,
                    ppc, apivars, gcDone, snap, secondPass, quiet, endedQuiet >>

\* mutant: a record dated exactly mintime counts as too new
TooNew_AtLeast(q, min) == q.timestamp >= min

\* mutant: no record is too new
TooNew_Never(q, min) == FALSE

\* runGC: the test that ends the scan
TooNew(q, min) == q.timestamp > min

\* mutant: the first record is processed before the test is made
GCscanning_TestAfter ==
    gci < counters.queries /\ (gci = 0 \/ ~TooNew(queries[gci], mintime))

\* runGC: the scan goes on with record gci: the lookup fails, or the record
\* is not too new
GCscanning ==
    gci < counters.queries /\ (gci \in lost \/ ~TooNew(queries[gci], mintime))

\* mutant: the bucket's total is not lowered
evictOverTime_KeepTotal(ot, idx, status) ==
    [ ot EXCEPT ![idx].blocked = @ - (IF IsBlocked(status) THEN 1 ELSE 0) ]

\* runGC: the bucket of an evicted query loses it
evictOverTime(ot, idx, status) ==
    [ ot EXCEPT ![idx].total = @ - 1,
                ![idx].blocked = @ - (IF IsBlocked(status) THEN 1 ELSE 0) ]

\* runGC: the client of an evicted query loses it
evictClient(cl, c, idx, status) ==
    LET cl1 == change_clientcount(cl, c, -1, 0, idx, -1)
    IN  IF IsBlocked(status) THEN change_clientcount(cl1, c, 0, -1, -1, 0) ELSE cl1

\* mutant: the domain's blocked counter is not lowered
evictDomain_KeepBlocked(dom, d, status) == [ dom EXCEPT ![d].count = @ - 1 ]

\* runGC: the domain of an evicted query loses it
evictDomain(dom, d, status) ==
    [ dom EXCEPT ![d].count = @ - 1,
                 ![d].blockedcount = @ - (IF IsBlocked(status) THEN 1 ELSE 0) ]

\* runGC: the reply, type and status counters of an evicted query
evictCounters(cnt, q) ==
    [ cnt EXCEPT
        !.reply[q.reply] = @ - 1,
        !.querytype = IF q.type \in CountedQueryTypes
                      THEN [ @ EXCEPT ![q.type] = @ - 1 ]
                      ELSE @,
        !.status = IF q.status # "UNKNOWN"
                   THEN [ @ EXCEPT !["UNKNOWN"] = @ - 1 ]
                   ELSE @ ]

\* mutant: the total of the bucket is lowered only when the client is found
GCEvict_TotalWithClient ==
    /\ gcpc = "gc_scan"
    /\ GCscanning
    /\ gci \notin lost
    /\ LET q == queries[gci]
           idx == getOverTimeID(q.timestamp)
       IN  /\ overTime' = setStatusOverTime(
                            IF q.clientID \in notFound.client
                            THEN evictOverTime_KeepTotal(overTime, idx, q.status)
                            ELSE evictOverTime(overTime, idx, q.status),
                            idx, q.status, "UNKNOWN")
           /\ clients' = IF q.clientID \in notFound.client
                         THEN clients
                         ELSE evictClient(clients, q.clientID, idx, q.status)
           /\ domains' = IF q.domainID \in notFound.domain
                         THEN domains
                         ELSE evictDomain(domains, q.domainID, q.status)
           /\ counters' = setStatusCounters(evictCounters(counters, q),
                                            q.status, "UNKNOWN")
           /\ queries' = [ queries EXCEPT ![gci].status = "UNKNOWN" ]
    /\ removed' = removed + 1
    /\ unlock_shm("gc")
    /\ gcpc' = "gc_del"
    /\ UNCHANGED << config, authvars, resvars, thrvars, dbvars, clock, doGC, now, lastGCrun, lastRateLimitCleaner, mintime,
                    gci, ppc, apivars, histvars >>

\* runGC: one record is evicted, then the lock is given up for the deletion
GCEvict ==
    /\ gcpc = "gc_scan"
    /\ GCscanning
    /\ gci \notin lost
    /\ LET q == queries[gci]
           idx == getOverTimeID(q.timestamp)
       IN  /\ overTime' = setStatusOverTime(evictOverTime(overTime, idx, q.status),
                                            idx, q.status, "UNKNOWN")
           /\ clients' = IF q.clientID \in notFound.client
                         THEN clients
                         ELSE evictClient(clients, q.clientID, idx, q.status)
           /\ domains' = IF q.domainID \in notFound.domain
                         THEN domains
                         ELSE evictDomain(domains, q.domainID, q.status)
           /\ counters' = setStatusCounters(evictCounters(counters, q),
                                            q.status, "UNKNOWN")
           /\ queries' = [ queries EXCEPT ![gci].status = "UNKNOWN" ]
    /\ removed' = removed + 1
    /\ unlock_shm("gc")
    /\ gcpc' = "gc_del"
    /\ UNCHANGED << config, authvars, resvars, thrvars, dbvars, clock, doGC, now, lastGCrun, lastRateLimitCleaner, mintime,
                    gci, ppc, apivars, histvars >>

\* mutant: the scan goes on without taking the lock again
GCDelete_NoLock(ok) ==
    /\ gcpc = "gc_del"
    /\ lock' = (IF lock = "free" THEN "gc" ELSE lock)
    /\ dbRequests' = Append(dbRequests, gci)
    /\ dbFailed' = (dbFailed \/ ~ok)
    /\ passStart' = passStart
    /\ lost' = lost
    /\ notFound' = notFound
    /\ gci' = gci + 1
    /\ gcpc' = "gc_scan"
    /\ UNCHANGED << config, authvars, resvars, thrvars, clock, store, doGC, now, lastGCrun, lastRateLimitCleaner,
                    mintime, removed, ppc, apivars, histvars >>

\* mutant: a deletion that failed is requested again
GCDelete_RetryFailed(ok) ==
    /\ gcpc = "gc_del"
    /\ dbRequests' = Append(dbRequests, gci)
    /\ dbFailed' = (dbFailed \/ ~ok)
    /\ passStart' = passStart
    /\ lost' = lost
    /\ notFound' = notFound
    /\ IF ok
       THEN lock_shm("gc") /\ gci' = gci + 1 /\ gcpc' = "gc_scan"
       ELSE UNCHANGED << lock, gci, gcpc >>
    /\ UNCHANGED << config, authvars, resvars, thrvars, clock, store, doGC, now, lastGCrun, lastRateLimitCleaner,
                    mintime, removed, ppc, apivars, histvars >>

\* runGC: query->db is read from the record after unlock_shm has returned,
\* delete_query_from_db is called for it and returns (its result is not
\* looked at), the lock is taken again, next record
GCDelete(ok) ==
    /\ gcpc = "gc_del"
    /\ dbRequests' = Append(dbRequests, gci)
    /\ dbFailed' = (dbFailed \/ ~ok)
    /\ passStart' = passStart
    /\ lost' = lost
    /\ notFound' = notFound
    /\ lock_shm("gc")
    /\ gci' = gci + 1
    /\ gcpc' = "gc_scan"
    /\ UNCHANGED << config, authvars, resvars, thrvars, clock, store, doGC, now, lastGCrun, lastRateLimitCleaner,
                    mintime, removed, ppc, apivars, histvars >>

\* mutant: the tail is cleared but the kept records are not moved
compactQueries_NoMove(qs, n, rem) ==
    IF rem > 0
    THEN [ i \in DOMAIN qs |-> IF i < n - rem THEN qs[i] ELSE ZeroQuery ]
    ELSE qs

\* runGC: memmove of the kept records to the front, memset of the tail
compactQueries(qs, n, rem) ==
    IF rem > 0
    THEN [ i \in DOMAIN qs |-> IF i < n - rem THEN qs[i + rem] ELSE ZeroQuery ]
    ELSE qs

\* mutant: the kept records are moved but the freed tail is not cleared
compactLedger_NoClear(qs, n, rem, bad) ==
    [ queries |-> [ i \in DOMAIN qs |-> IF i < n - rem THEN qs[i + rem] ELSE qs[i] ],
      lost |-> bad ]

\* runGC: the compaction when a lookup may fail: dest and src decide on the
\* memmove, tail on the memset; a slot's magic byte moves with its record
compactLedger(qs, n, rem, bad) ==
    IF rem = 0 THEN [ queries |-> qs, lost |-> bad ]
    ELSE IF bad = {} THEN [ queries |-> compactQueries(qs, n, rem), lost |-> bad ]
    ELSE LET move == 0 \notin bad /\ rem \in (DOMAIN qs) \ bad
             q1 == IF move
                   THEN [ i \in DOMAIN qs |-> IF i < n - rem THEN qs[i + rem] ELSE qs[i] ]
                   ELSE qs
             bad1 == IF move
                     THEN { i - rem : i \in { j \in bad : j >= rem /\ j < n } }
                            \cup { i \in bad : i >= n - rem }
                     ELSE bad
             q2 == IF (n - rem) \notin bad1
                   THEN [ i \in DOMAIN qs |-> IF i < n - rem THEN q1[i] ELSE ZeroQuery ]
                   ELSE q1
         IN  [ queries |-> q2, lost |-> { i \in bad1 : i < n - rem } ]

\* the magic byte of a ledger record is damaged; the model looks at one
\* damaged record, damaged in the first second
Corrupt(i) ==
    /\ i \in 0 .. (counters.queries - 1)
    /\ lost = {}
    /\ clock = StartTime
    /\ lost' = lost \cup { i }
    /\ notFound' = notFound
    /\ UNCHANGED << config, authvars, resvars, thrvars, dbRequests, dbFailed, passStart, clock, store, lock,
                    doGC, gcvars, ppc, apivars, histvars >>

\* the magic byte of a client or of a domain record is damaged: getClient or
\* getDomain returns NULL for it from now on; the model looks at one damaged
\* record, damaged in the first second
Trim(kind, id) ==
    /\ notFound = [ client |-> {}, domain |-> {} ]
    /\ clock = StartTime
    /\ notFound' = [ notFound EXCEPT ![kind] = @ \cup { id } ]
    /\ UNCHANGED << config, authvars, resvars, thrvars, dbRequests, dbFailed, passStart, lost, clock, store,
                    lock, doGC, gcvars, ppc, apivars, histvars >>

\* runGC: getQuery returns NULL for record gci, the scan continues with the
\* next one
GCSkipRecord ==
    /\ gcpc = "gc_scan"
    /\ GCscanning
    /\ gci \in lost
    /\ gci' = gci + 1
    /\ UNCHANGED << config, authvars, resvars, thrvars, dbvars, clock, store, lock, doGC, gcpc, now, lastGCrun,
                    lastRateLimitCleaner, mintime, removed, ppc, apivars, histvars >>

\* mutant: the pass ends without moveOverTimeMemory
GCFinish_NoShift ==
    /\ gcpc = "gc_scan"
    /\ ~GCscanning
    /\ queries' = compactLedger(queries, counters.queries, removed, lost).queries
    /\ counters' = [ counters EXCEPT !.queries = @ - removed ]
    /\ overTime' = overTime
    /\ clients' = clients
    /\ unlock_shm("gc")
    /\ gcpc' = "loop"
    /\ gcDone' = IF removed > 0 THEN "evicted" ELSE "kept"
    /\ gci' = 0
    /\ removed' = 0
    /\ snap' = [ store |-> << queries', counters', overTime', clients', domains >>,
                 mintime |-> mintime ]
    /\ secondPass' = IF snap = NoSnap THEN "no"
                     ELSE IF snap.mintime = mintime THEN "same" ELSE "later"
    /\ now' = 0
    /\ dbRequests' = << >>
    /\ dbFailed' = FALSE
    /\ passStart' = 0
    /\ lost' = compactLedger(queries, counters.queries, removed, lost).lost
    /\ notFound' = notFound
    /\ UNCHANGED << config, authvars, resvars, thrvars, clock, domains, doGC, lastGCrun, lastRateLimitCleaner,
                    mintime, ppc, apivars, windowAppend, quiet, endedQuiet >>

\* runGC: the scan is over: compaction, histogram shift, unlock
GCFinish ==
    /\ gcpc = "gc_scan"
    /\ ~GCscanning
    /\ queries' = compactLedger(queries, counters.queries, removed, lost).queries
    /\ counters' = [ counters EXCEPT !.queries = @ - removed ]
    /\ overTime' = moveOverTimeSlots(overTime, mintime)
    /\ clients' = moveOverTimeClients(clients, overTime, mintime)
    /\ unlock_shm("gc")
    /\ gcpc' = "loop"
    /\ gcDone' = IF removed > 0 THEN "evicted" ELSE "kept"
    /\ gci' = 0
    /\ removed' = 0
    /\ snap' = [ store |-> << queries', counters', overTime', clients', domains >>,
                 mintime |-> mintime ]
    /\ secondPass' = IF snap = NoSnap THEN "no"
                     ELSE IF snap.mintime = mintime THEN "same" ELSE "later"
    /\ now' = 0
    /\ dbRequests' = << >>
    /\ dbFailed' = FALSE
    /\ passStart' = 0
    /\ lost' = compactLedger(queries, counters.queries, removed, lost).lost
    /\ notFound' = notFound
    /\ UNCHANGED << config, authvars, resvars, thrvars, clock, domains, doGC, lastGCrun, lastRateLimitCleaner,
                    mintime, ppc, apivars, windowAppend, quiet, endedQuiet >>

(***************************************************************************)
(* The history endpoints (api/history.c)                                   *)
(***************************************************************************)
RECURSIVE SortedSeq(_)
\* the elements of a finite set of integers in increasing order
SortedSeq(S) ==
    IF S = {} THEN << >>
    ELSE LET m == CHOOSE x \in S : \A y \in S : x <= y
         IN  << m >> \o SortedSeq(S \ {m})

\* mutant: without the found flag the default from = 0 is used
FirstDataSlot_NoFoundFlag ==
    LET full == { s \in Slots : /\ (overTime[s].total > 0 \/ overTime[s].blocked > 0)
                                /\ overTime[s].timestamp >= overTime[0].timestamp }
    IN  IF full = {} THEN 0 ELSE CHOOSE s \in full : \A t \in full : s <= t

\* the first slot that holds data, or -1
FirstDataSlot ==
    LET full == { s \in Slots : /\ (overTime[s].total > 0 \/ overTime[s].blocked > 0)
                                /\ overTime[s].timestamp >= overTime[0].timestamp }
    IN  IF full = {} THEN -1 ELSE CHOOSE s \in full : \A t \in full : s <= t

\* the first slot that has not begun yet, or OVERTIME_SLOTS
UntilSlot ==
    LET future == { s \in Slots : overTime[s].timestamp >= clock }
    IN  IF future = {} THEN OVERTIME_SLOTS
        ELSE CHOOSE s \in future : \A t \in future : s <= t

\* the slots from..until-1 as a sequence
SlotRange(from, until) ==
    IF until > from THEN [ k \in 1 .. (until - from) |-> from + k - 1 ] ELSE << >>

ReaderLock(r, endpoint) ==
    /\ rpc[r] = "idle"
    /\ lock_shm(r)
    /\ rpc' = [ rpc EXCEPT ![r] = endpoint ]
    /\ UNCHANGED << config, authvars, resvars, thrvars, dbvars, clock, store, doGC, gcvars, ppc, reply, privacySeen,
                    histvars >>

\* api_history: the reply
HistoryReply ==
    LET from == FirstDataSlot
        range == SlotRange(from, UntilSlot)
    IN  IF from < 0
        THEN [ kind |-> "history", code |-> 200, top |-> "array",
               members |-> {}, error |-> {},
               history |-> << [ empty |-> TRUE ] >>, clients |-> << >> ]
        ELSE [ kind |-> "history", code |-> 200, top |-> "object",
               members |-> { "history" }, error |-> {},
               history |-> [ k \in DOMAIN range |->
                               [ timestamp |-> overTime[range[k]].timestamp,
                                 total |-> overTime[range[k]].total,
                                 cached |-> overTime[range[k]].cached,
                                 blocked |-> overTime[range[k]].blocked ] ],
               clients |-> << >> ]

\* api_history
ApiHistory(r) ==
    /\ rpc[r] = "history"
    /\ reply' = [ reply EXCEPT ![r] = HistoryReply ]
    /\ rpc' = [ rpc EXCEPT ![r] = "send_unlock" ]
    /\ UNCHANGED << config, authvars, resvars, thrvars, dbvars, clock, store, lock, doGC, gcvars, ppc, privacySeen,
                    histvars >>

\* the values of API_EXCLUDE_CLIENTS: not set, or a list of clients
ExcludeInputs ==
    { [ isNull |-> TRUE, ids |-> {} ] }
        \cup { [ isNull |-> FALSE, ids |-> S ] : S \in SUBSET ClientIDs }

\* api_history_clients: skipclient[]
skipclient(exclude, c) ==
    /\ ~exclude.isNull
    /\ \/ c \in exclude.ids
       \/ (~IsAliasClient(c) /\ aliasclient_id(c) > -1)

\* mutant: clients managed by an alias client are not skipped in the data loop
DataClient_NoAliasTest(exclude, c) == ~skipclient(exclude, c)

\* api_history_clients: the clients that get a column in every data array
DataClient(exclude, c) == ~skipclient(exclude, c) /\ ~(aliasclient_id(c) >= 0)

\* api_history_clients: the clients listed in the clients array
ListedClient(exclude, c) == ~skipclient(exclude, c)

\* api_history_clients: the reply that carries the per-client series
ClientsReply(exclude) ==
    LET range == SlotRange(FirstDataSlot, UntilSlot)
        cols == SortedSeq({ c \in ClientIDs : DataClient(exclude, c) })
        listed == SortedSeq({ c \in ClientIDs : ListedClient(exclude, c) })
    IN  [ kind |-> "clients", code |-> 200, top |-> "object",
          members |-> { "history", "clients" }, error |-> {},
          history |-> [ k \in DOMAIN range |->
                          [ timestamp |-> overTime[range[k]].timestamp,
                            slot |-> range[k],
                            data |-> [ j \in DOMAIN cols |->
                                         [ client |-> cols[j],
                                           value |-> clients[cols[j]].overTime[range[k]] ] ] ] ],
          clients |-> listed ]

\* api_history_clients: the reply without any per-client data
EmptyClientsReply ==
    [ kind |-> "clients", code |-> 200, top |-> "object",
      members |-> { "history", "clients" }, error |-> {},
      history |-> << >>, clients |-> << >> ]

\* send_json_error: {"error": {"key": .., "message": .., "hint": ..}} with the code
ErrorReply(code) ==
    [ kind |-> "error", code |-> code, top |-> "object",
      members |-> { "error" }, error |-> { "key", "message", "hint" },
      history |-> << >>, clients |-> << >> ]

\* send_json_unauthorized
UnauthorizedReply == ErrorReply(401)

\* api_history_clients, the request is not authorized: send_json_unauthorized
ApiClientsUnauthorized(r, auth) ==
    /\ rpc[r] = "clients"
    /\ auth = API_AUTH_UNAUTHORIZED
    /\ reply' = [ reply EXCEPT ![r] = UnauthorizedReply ]
    /\ rpc' = [ rpc EXCEPT ![r] = "send" ]
    /\ UNCHANGED << config, authvars, resvars, thrvars, dbvars, clock, store, lock, doGC, gcvars, ppc, privacySeen,
                    histvars >>

\* mutant: the level that hides clients itself does not hide them
HideClients_Above(privacylevel) == privacylevel > PRIVACY_HIDE_DOMAINS_CLIENTS

\* api_history_clients: the privacy level forces the empty reply
HideClients(privacylevel) == privacylevel >= PRIVACY_HIDE_DOMAINS_CLIENTS

\* api_history_clients, the request is authorized
ApiClients(r, auth, privacylevel, exclude) ==
    /\ rpc[r] = "clients"
    /\ auth # API_AUTH_UNAUTHORIZED
    /\ reply' = [ reply EXCEPT ![r] =
                    IF HideClients(privacylevel) \/ FirstDataSlot < 0
                    THEN EmptyClientsReply
                    ELSE ClientsReply(exclude) ]
    /\ privacySeen' = [ privacySeen EXCEPT ![r] = privacylevel ]
    /\ rpc' = [ rpc EXCEPT ![r] = "send_unlock" ]
    /\ UNCHANGED << config, authvars, resvars, thrvars, dbvars, clock, store, lock, doGC, gcvars, ppc, histvars >>

\* JSON_SEND_OBJECT_UNLOCK: send the reply, delete it, unlock, return
SendObjectUnlock(r) ==
    /\ rpc[r] = "send_unlock"
    /\ reply' = [ reply EXCEPT ![r] = NoReply ]
    /\ privacySeen' = [ privacySeen EXCEPT ![r] = -1 ]
    /\ unlock_shm(r)
    /\ rpc' = [ rpc EXCEPT ![r] = "idle" ]
    /\ UNCHANGED << config, authvars, resvars, thrvars, dbvars, clock, store, doGC, gcvars, ppc, histvars >>

\* JSON_SEND_OBJECT_CODE: send the reply, delete it, return
SendObjectCode(r) ==
    /\ rpc[r] = "send"
    /\ reply' = [ reply EXCEPT ![r] = NoReply ]
    /\ rpc' = [ rpc EXCEPT ![r] = "idle" ]
    /\ UNCHANGED << config, authvars, resvars, thrvars, dbvars, clock, store, lock, doGC, gcvars, ppc, privacySeen,
                    histvars >>

(***************************************************************************)
(* The API's authentication (api/auth): sessions and challenges            *)
(***************************************************************************)
\* LOCALHOSTv4 and LOCALHOSTv6
Localhost == { "127.0.0.1", "::1" }

\* the remote addresses requests come from
AddrInputs == { "127.0.0.1", "10.0.0.1", "10.0.0.2" }

\* the session IDs and the responses a request presents: none, or one of the
\* values FTL can have generated; a response that no challenge has is Wrong
Wrong == -1

SidInputs == 0 .. MaxRandom

ResponseInputs == { Wrong } \cup (0 .. MaxRandom)

MethodInputs == { "GET", "POST", "DELETE" }

\* generateResponse: the SHA-256 digest of challenge ":" pwhash, in lower-case
\* hexadecimal digits; a digest is represented by the challenge it is made
\* of (the password hash does not change), and strcasecmp compares digests
generateResponse(challenge) == challenge

\* check_client_auth: the slot of the session the request belongs to
findSession(ad, addr, sid, t) ==
    LET match == { i \in SessionSlots : /\ ad[i].used
                                         /\ ad[i].valid_until >= t
                                         /\ ad[i].remote_addr = addr
                                         /\ ad[i].sid = sid }
    IN  IF match = {} THEN API_AUTH_UNAUTHORIZED
        ELSE CHOOSE i \in match : \A j \in match : i <= j

\* mutant: the remote address of the request is not compared
check_client_auth_AnyAddr(ad, addr, sid, t) ==
    IF ~config.localAPIauth /\ addr \in Localhost THEN API_AUTH_LOCALHOST
    ELSE IF ~config.pwhash THEN API_AUTH_EMPTYPASS
    ELSE IF sid = Empty THEN API_AUTH_UNAUTHORIZED
    ELSE LET match == { i \in SessionSlots : /\ ad[i].used
                                              /\ ad[i].valid_until >= t
                                              /\ ad[i].sid = sid }
         IN  IF match = {} THEN API_AUTH_UNAUTHORIZED
             ELSE CHOOSE i \in match : \A j \in match : i <= j

\* check_client_auth: the value returned; sid is Empty when the request has
\* no SID in a cookie, in its payload or in a header
check_client_auth(ad, addr, sid, t) ==
    IF ~config.localAPIauth /\ addr \in Localhost THEN API_AUTH_LOCALHOST
    ELSE IF ~config.pwhash THEN API_AUTH_EMPTYPASS
    ELSE IF sid = Empty THEN API_AUTH_UNAUTHORIZED
    ELSE findSession(ad, addr, sid, t)

\* check_client_auth: the validity of the session found is extended
extendSession(ad, user_id, t) ==
    IF user_id > API_AUTH_UNAUTHORIZED
    THEN [ ad EXCEPT ![user_id].valid_until = t + config.sessionTimeout ]
    ELSE ad

\* delete_session
delete_session(ad, user_id) ==
    IF user_id < 0 THEN ad ELSE [ ad EXCEPT ![user_id] = [ NoSession EXCEPT !.login_at = ad[user_id].login_at ] ]

\* mutant: a challenge that was accepted stays valid
check_response_NoInvalidate(ch, response, t) ==
    LET match == { i \in ChallengeSlots : ~(ch[i].valid_until < t) /\ ch[i].response = response }
    IN  [ ok |-> match # {}, challenges |-> ch ]

\* check_response: the first challenge that has not expired and has this
\* response is invalidated
check_response(ch, response, t) ==
    LET match == { i \in ChallengeSlots : ~(ch[i].valid_until < t) /\ ch[i].response = response }
    IN  IF match = {} THEN [ ok |-> FALSE, challenges |-> ch ]
        ELSE LET i == CHOOSE m \in match : \A j \in match : m <= j
             IN  [ ok |-> TRUE, challenges |-> [ ch EXCEPT ![i].valid_until = 0 ] ]

RECURSIVE newSession_NoExpiry(_, _, _, _, _)
\* mutant: the session of a slot in use is not tested for expiry
newSession_NoExpiry(ad, i, addr, sid, t) ==
    IF i = API_MAX_CLIENTS THEN [ user_id |-> API_AUTH_UNAUTHORIZED, auth_data |-> ad ]
    ELSE IF ~ad[i].used
         THEN [ user_id |-> i,
                auth_data |-> [ ad EXCEPT ![i] =
                                  [ used |-> TRUE, login_at |-> t,
                                    valid_until |-> t + config.sessionTimeout,
                                    remote_addr |-> addr, sid |-> sid ] ] ]
         ELSE newSession_NoExpiry(ad, i + 1, addr, sid, t)

RECURSIVE newSession(_, _, _, _, _)
\* api_auth: the loop over the session slots after a correct response: an
\* expired session is freed when the loop comes to it, the first unused slot
\* is taken
newSession(ad, i, addr, sid, t) ==
    IF i = API_MAX_CLIENTS THEN [ user_id |-> API_AUTH_UNAUTHORIZED, auth_data |-> ad ]
    ELSE LET ad1 == IF ad[i].used /\ ad[i].valid_until < t THEN delete_session(ad, i) ELSE ad
         IN  IF ~ad1[i].used
             THEN [ user_id |-> i,
                    auth_data |-> [ ad1 EXCEPT ![i] =
                                      [ used |-> TRUE, login_at |-> t,
                                        valid_until |-> t + config.sessionTimeout,
                                        remote_addr |-> addr, sid |-> sid ] ] ]
             ELSE newSession(ad1, i + 1, addr, sid, t)

RECURSIVE oldestChallenge(_, _, _, _)
\* api_auth: the search for the oldest challenge, from minidx = 0 and
\* minval = now
oldestChallenge(ch, i, minidx, minval) ==
    IF i = API_MAX_CHALLENGES THEN minidx
    ELSE IF ch[i].valid_until < minval
         THEN oldestChallenge(ch, i + 1, i, ch[i].valid_until)
         ELSE oldestChallenge(ch, i + 1, minidx, minval)

\* api_auth: the slot of the new challenge: the first empty or expired one,
\* or what the search for the oldest gives
challengeSlot(ch, t) ==
    LET free == { i \in ChallengeSlots : ch[i].valid_until < t }
    IN  IF free # {} THEN CHOOSE i \in free : \A j \in free : i <= j
        ELSE oldestChallenge(ch, 0, 0, t)

\* send_api_auth_status: the HTTP status sent
send_api_auth_status(user_id, method) ==
    IF user_id = API_AUTH_LOCALHOST \/ user_id = API_AUTH_EMPTYPASS THEN 200
    ELSE IF user_id > API_AUTH_UNAUTHORIZED /\ method \in { "GET", "POST" } THEN 200
    ELSE IF user_id > API_AUTH_UNAUTHORIZED /\ method = "DELETE" THEN 410
    ELSE 401

\* what a request can present as its session ID or its response: nothing,
\* or a value FTL has generated; a value it has not generated yet is Wrong
Generated == 0 .. drawn

\* an API endpoint other than api/auth asks check_client_auth (api_history)
AuthCheck(addr, sid) ==
    LET user_id == check_client_auth(auth_data, addr, sid, clock)
    IN  /\ sid \in Generated
        /\ auth_data' = extendSession(auth_data, user_id, clock)
        /\ authReply' = [ kind |-> "check", response |-> Empty, correct |-> FALSE, user_id |-> user_id,
                          code |-> 0, slot |-> -1 ]
        /\ UNCHANGED << config, challenges, drawn, accepted, resvars, thrvars, dbvars, clock, store,
                        lock, doGC, gcvars, ppc, apivars, histvars >>

\* api_auth: the request belongs to a session, or needs none: the status is
\* sent, DELETE ends the session
AuthStatus(method, addr, sid) ==
    LET user_id == check_client_auth(auth_data, addr, sid, clock)
        ad1 == extendSession(auth_data, user_id, clock)
    IN  /\ sid \in Generated
        /\ user_id # API_AUTH_UNAUTHORIZED
        /\ auth_data' = IF user_id > API_AUTH_UNAUTHORIZED /\ method = "DELETE"
                        THEN delete_session(ad1, user_id)
                        ELSE ad1
        /\ authReply' = [ kind |-> "status", response |-> Empty, correct |-> FALSE, user_id |-> user_id,
                          code |-> send_api_auth_status(user_id, method), slot |-> -1 ]
        /\ UNCHANGED << config, challenges, drawn, accepted, resvars, thrvars, dbvars, clock, store,
                        lock, doGC, gcvars, ppc, apivars, histvars >>

\* api_auth: a request without a session that is no login: a POST without a
\* response of the right length is refused, a DELETE is answered with 401
AuthRefuse(method, addr, sid) ==
    /\ sid \in Generated
    /\ method \in { "POST", "DELETE" }
    /\ check_client_auth(auth_data, addr, sid, clock) = API_AUTH_UNAUTHORIZED
    /\ authReply' = [ kind |-> "refused", response |-> Empty, correct |-> FALSE,
                      user_id |-> API_AUTH_UNAUTHORIZED,
                      code |-> IF method = "POST" THEN 400
                               ELSE send_api_auth_status(API_AUTH_UNAUTHORIZED, method),
                      slot |-> -1 ]
    /\ UNCHANGED << config, auth_data, challenges, drawn, accepted, resvars, thrvars, dbvars, clock,
                    store, lock, doGC, gcvars, ppc, apivars, histvars >>

\* api_auth: a login: POST with a response
AuthLogin(addr, sid, response) ==
    /\ sid \in Generated
    /\ response \in Generated \cup { Wrong }
    /\ check_client_auth(auth_data, addr, sid, clock) = API_AUTH_UNAUTHORIZED
    /\ response # Empty
    /\ LET checked == check_response(challenges, response, clock)
           session == IF checked.ok
                      THEN newSession(auth_data, 0, addr, drawn + 1, clock)
                      ELSE [ user_id |-> API_AUTH_UNAUTHORIZED, auth_data |-> auth_data ]
       IN  /\ session.user_id > API_AUTH_UNAUTHORIZED => drawn < MaxRandom
           /\ challenges' = checked.challenges
           /\ auth_data' = session.auth_data
           /\ drawn' = IF session.user_id > API_AUTH_UNAUTHORIZED THEN drawn + 1 ELSE drawn
           /\ accepted' = IF checked.ok THEN accepted \cup { response } ELSE accepted
           /\ authReply' = [ kind |-> "login", response |-> response, correct |-> checked.ok,
                             user_id |-> session.user_id,
                             code |-> send_api_auth_status(session.user_id, "POST"),
                             slot |-> -1 ]
    /\ UNCHANGED << config, resvars, thrvars, dbvars, clock, store, lock, doGC, gcvars, ppc, apivars,
                    histvars >>

\* api_auth: GET without a session: a challenge is generated and sent
AuthChallenge(addr, sid) ==
    /\ sid \in Generated
    /\ check_client_auth(auth_data, addr, sid, clock) = API_AUTH_UNAUTHORIZED
    /\ drawn < MaxRandom
    /\ LET i == challengeSlot(challenges, clock)
       IN  /\ challenges' = [ challenges EXCEPT ![i] =
                                [ challenge |-> drawn + 1,
                                  response |-> generateResponse(drawn + 1),
                                  valid_until |-> clock + API_CHALLENGE_TIMEOUT ] ]
           /\ authReply' = [ kind |-> "challenge", response |-> Empty, correct |-> FALSE,
                             user_id |-> API_AUTH_UNAUTHORIZED, code |-> 200, slot |-> i ]
    /\ drawn' = drawn + 1
    /\ UNCHANGED << config, auth_data, accepted, resvars, thrvars, dbvars, clock, store, lock, doGC,
                    gcvars, ppc, apivars, histvars >>

\* the requests to the API's authentication
Auth ==
    \E addr \in AddrInputs, sid \in SidInputs :
        \/ AuthCheck(addr, sid)
        \/ \E method \in MethodInputs : AuthStatus(method, addr, sid)
        \/ \E method \in MethodInputs : AuthRefuse(method, addr, sid)
        \/ \E response \in ResponseInputs : AuthLogin(addr, sid, response)
        \/ AuthChallenge(addr, sid)

\* time passes, for as long as a challenge and then a session take to expire
AuthTick == clock < StartTime + API_CHALLENGE_TIMEOUT + 1 /\ Tick

(***************************************************************************)
(* Specifications                                                          *)
(***************************************************************************)
AuthInputs == { API_AUTH_UNAUTHORIZED, 0 }

PrivacyInputs == { PRIVACY_SHOW_ALL, PRIVACY_HIDE_DOMAINS_CLIENTS }

Producer ==
    \/ ProdLock
    \/ \E q \in QueryInputs : ProdAppend(q[1], q[2], q[3], q[4], q[5])
    \/ ProdFull

Mutator ==
    \E i \in 0 .. (MaxQueries - 1), status \in StatusInputs : ProdMutate(i, status)

\* GC_thread with dns.rateLimit.interval = 0: the decay branch is never taken
Collector ==
    \/ GCLoopTop
    \/ GCSkip
    \/ GCStart
    \/ GCLock
    \/ GCEvict
    \/ \E ok \in BOOLEAN : GCDelete(ok)
    \/ GCFinish

Housekeeper ==
    \/ GCLoopTop
    \/ GCRateLimitLock
    \/ GCRateLimitReset
    \/ GCSkip
    \/ GCStart
    \/ GCLock
    \/ GCEvict
    \/ \E ok \in BOOLEAN : GCDelete(ok)
    \/ GCFinish

Api ==
    \E r \in Readers :
        \/ ReaderLock(r, "history")
        \/ ReaderLock(r, "clients")
        \/ ApiHistory(r)
        \/ \E auth \in AuthInputs : ApiClientsUnauthorized(r, auth)
        \/ \E auth \in AuthInputs, p \in PrivacyInputs, e \in ExcludeInputs :
             ApiClients(r, auth, p, e)
        \/ SendObjectUnlock(r)
        \/ SendObjectCode(r)

\* the resolver and the housekeeper
Next == Tick \/ Producer \/ Mutator \/ Housekeeper

Spec == Init /\ [][Next]_vars

\* the same with rate limiting switched off
NextLedger == Tick \/ Producer \/ Mutator \/ Collector

SpecLedger == InitNoRateLimit /\ [][NextLedger]_vars

\* a second passes, until the clock is in the second bucket
MutateTick ==
    /\ clock < StartTime + OVERTIME_INTERVAL
    /\ Tick

\* appends and status changes between any two statuses, no GC pass
NextMutate ==
    \/ MutateTick
    \/ Producer
    \/ \E i \in 0 .. (MaxQueries - 1), status \in QueryStatuses : ProdMutateAny(i, status)

SpecMutate == InitNoRateLimit /\ [][NextMutate]_vars

\* appends and GC passes, with one client or domain that is not found
NextLookup ==
    \/ Tick
    \/ Producer
    \/ Collector
    \/ \E c \in { 0, 1 } : Trim("client", c)
    \/ \E d \in DomainIDs : Trim("domain", d)

SpecLookup == InitNoRateLimit /\ [][NextLookup]_vars

\* the requests to the API's authentication while time passes
NextAuth == AuthTick \/ Auth

SpecAuth == InitNoRateLimit /\ [][NextAuth]_vars

\* appends and GC passes only
NextAppendGC == Tick \/ Producer \/ Collector

SpecAppendGC == InitNoRateLimit /\ [][NextAppendGC]_vars

\* appends, rate-limit decay and GC passes
NextRateLimit == Tick \/ Producer \/ Housekeeper

SpecRateLimit == Init /\ [][NextRateLimit]_vars

\* the same while the configured threshold changes
InitReload == InitWith(rateLimitCount + 1, rateLimitInterval)

NextReload == NextRateLimit \/ \E count \in ReloadCounts : ConfigReload(count)

SpecReload == InitReload /\ [][NextReload]_vars

\* the resolver and the housekeeper until FTL shuts down
NextShutdown == Tick \/ Producer \/ Collector \/ Kill \/ GCTerminate

\* the housekeeper thread is scheduled and its lock_shm calls return; the
\* resolver leaves its critical sections
SpecShutdown ==
    /\ InitNoRateLimit
    /\ [][NextShutdown]_vars
    /\ SF_vars(Collector \/ GCTerminate)
    /\ WF_vars(Producer)

\* the time that passes between two rounds of the housekeeper's loop that
\* the model looks at: half a resource checking interval, or a whole one
SleepInputs == { RCinterval \div 2, RCinterval }

ResMaxTime == StartTime + 3 * RCinterval

Sleep(d) ==
    /\ clock + d <= ResMaxTime
    /\ clock' = clock + d
    /\ UNCHANGED << config, authvars, resvars, thrvars, dbvars, store, lock, doGC, gcvars, ppc, apivars,
                    histvars >>

\* the housekeeper alone, with its resource checks
NextResources ==
    \/ \E d \in SleepInputs : Sleep(d)
    \/ GCLoopTop
    \/ \E load \in LoadInputs, got \in BOOLEAN, db \in UsageInputs, log \in UsageInputs :
         GCResourceCheck(load, got, db, log)
    \/ ~RCdue /\ GCSkip
    \/ ~RCdue /\ GCStart
    \/ GCLock
    \/ GCFinish

SpecResources == InitNoRateLimit /\ [][NextResources]_vars

\* appends and GC passes while record lookups can fail
NextFaulty ==
    \/ NextAppendGC
    \/ \E i \in 0 .. (MaxQueries - 1) : Corrupt(i)
    \/ GCSkipRecord

SpecFaulty == InitNoRateLimit /\ [][NextFaulty]_vars

\* the resolver, the housekeeper and the API workers
NextApi == Tick \/ Producer \/ Collector \/ Api

SpecApi == InitNoRateLimit /\ [][NextApi]_vars

(***************************************************************************)
(* Properties                                                              *)
(***************************************************************************)
\* the indices of the records the ledger holds
Ledger == 0 .. (counters.queries - 1)

\* no GC pass is between its scan and its compaction
Quiescent == gcpc \notin { "gc_scan", "gc_del" }

\* the records a GC pass has already evicted but not yet removed
Evicted == { i \in Ledger : gcpc = "gc_del" /\ i <= gci }

TotalSum == SumOver([ s \in Slots |-> overTime[s].total ], Slots)

BlockedSum == SumOver([ s \in Slots |-> overTime[s].blocked ], Slots)

FirstBucketAtStart == StartTime - (StartTime % OVERTIME_INTERVAL)

\* C1: after every completed GC pass, every record left in the ledger has a
\* timestamp strictly greater than the retention horizon (mintime) of that
\* pass, whatever the resolver appended in the pass's lock-release windows.
C1_RemainingNewerThanHorizon ==
    gcDone # "no" => \A i \in Ledger : queries[i].timestamp > mintime

\* a pass has evicted records, an append fell into one of its lock-release
\* windows, and records are left
C1_Witness == gcDone = "evicted" /\ windowAppend /\ counters.queries > 0

\* C2: at every quiescent point the totals of all histogram buckets add up
\* to the ledger length.
C2_TotalsMatchLength == Quiescent => TotalSum = counters.queries

\* a pass has evicted records and shifted the histogram, and records are left
C2_Witness ==
    /\ gcDone = "evicted"
    /\ counters.queries > 0
    /\ overTime[0].timestamp > FirstBucketAtStart

\* C3: at every quiescent point the blocked counts of all histogram buckets
\* add up to the number of ledger records with a blocking status (evicting a
\* blocked record lowers its bucket's blocked count by exactly 1).
C3_BlockedMatchLedger ==
    Quiescent =>
        BlockedSum = Cardinality({ i \in Ledger : IsBlocked(queries[i].status) })

\* C4: at every quiescent point, after appends and GC passes, every domain's
\* count is the number of ledger records of that domain, and its blockedcount
\* the number of those with a blocking status.
C4_DomainCounts ==
    Quiescent =>
        \A d \in DomainIDs :
            /\ domains[d].count =
                 Cardinality({ i \in Ledger : queries[i].domainID = d })
            /\ domains[d].blockedcount =
                 Cardinality({ i \in Ledger : /\ queries[i].domainID = d
                                              /\ IsBlocked(queries[i].status) })

\* a pass has evicted records and a domain holds a blocked and another record
C4_Witness ==
    /\ gcDone = "evicted"
    /\ \E d \in DomainIDs : domains[d].count = 2 /\ domains[d].blockedcount = 1

\* a GC pass completes in this step
PassCompletes == gcpc = "gc_scan" /\ gcpc' = "loop"

\* C5, as stated: a GC pass that follows a completed pass with no append and
\* no status change in between evicts nothing and leaves the ledger, its
\* length and every aggregate as they were.
C5_SecondPassNoOp ==
    [][ (PassCompletes /\ snap # NoSnap) => (removed = 0 /\ store' = snap.store) ]_vars

\* C5, amended: the same for a second pass with the same retention horizon.
C5_SecondPassSameHorizonNoOp ==
    [][ (PassCompletes /\ snap # NoSnap /\ snap.mintime = mintime)
          => (removed = 0 /\ store' = snap.store) ]_vars

\* a second pass with the same horizon has completed over a ledger with records
C5_Witness == secondPass = "same" /\ gcDone = "kept" /\ counters.queries > 0

\* C6: a worker that has returned from api_history or api_history_clients
\* does not hold the store lock.
C6_LockReleasedOnReturn == \A r \in Readers : rpc[r] = "idle" => lock # r

\* the threads inside a critical section of the store lock
InCriticalSection ==
    { t \in { "gc" } : gcpc \in { "rl_cs", "gc_scan" } }
        \cup { t \in { "prod" } : ppc = "cs" }
        \cup { r \in Readers : rpc[r] \in { "history", "clients", "send_unlock", "send" } }

\* C7: at no time are two threads inside a critical section of the store lock.
C7_MutualExclusion == Cardinality(InCriticalSection) <= 1

\* a worker reads the store while the GC waits in a lock-release window and
\* the resolver waits for the lock
C7_Witness ==
    /\ \E r \in Readers : rpc[r] = "send_unlock"
    /\ gcpc = "gc_del"
    /\ ppc = "idle"

\* the replies of api_history_clients that carry per-client series
ClientsReplies ==
    { r \in Readers : /\ rpc[r] = "send_unlock"
                      /\ reply[r].kind = "clients"
                      /\ reply[r].history # << >> }

\* the ledger records of bucket s sent by the clients that alias client a manages
RecordsManagedBy(a, s) ==
    { i \in Ledger \ Evicted : /\ aliasclient_id(queries[i].clientID) = a
                               /\ getOverTimeID(queries[i].timestamp) = s }

\* C8: in every api_history_clients reply no data column belongs to a client
\* managed by an alias client, and the column of an alias client counts the
\* queries of the clients it manages.
C8_AliasExclusion ==
    \A r \in ClientsReplies :
        \A k \in DOMAIN reply[r].history :
            LET item == reply[r].history[k]
            IN  \A j \in DOMAIN item.data :
                    /\ aliasclient_id(item.data[j].client) < 0
                    /\ IsAliasClient(item.data[j].client) =>
                         item.data[j].value =
                           Cardinality(RecordsManagedBy(item.data[j].client, item.slot))

\* a reply sent after an eviction shows queries in the column of the alias client
C8_Witness ==
    /\ gcDone = "evicted"
    /\ \E r \in ClientsReplies :
          \E k \in DOMAIN reply[r].history :
              \E j \in DOMAIN reply[r].history[k].data :
                  /\ IsAliasClient(reply[r].history[k].data[j].client)
                  /\ reply[r].history[k].data[j].value > 0

\* C9: in every api_history_clients reply that carries data, the clients
\* array has as many entries as every data array, and the k-th value of a
\* data array belongs to the k-th entry of the clients array.
C9_ClientsMatchColumns ==
    \A r \in ClientsReplies :
        \A k \in DOMAIN reply[r].history :
            LET data == reply[r].history[k].data
            IN  /\ Len(data) = Len(reply[r].clients)
                /\ \A j \in DOMAIN data : data[j].client = reply[r].clients[j]

\* the rate-limit decay happens in this step
Decay == gcpc = "rl_cs" /\ gcpc' # "rl_cs"

\* C10: a client with no append since the previous decay has, after the
\* decay, a rate_limit count of 0 and is not rate-limited.
C10_QuietClientReset ==
    [][ Decay => \A c \in quiet :
                    clients'[c].rate_limit = 0 /\ ~clients'[c].rate_limited ]_vars

\* the decay has just ended the limitation of a client that had been quiet
C10_Witness == endedQuiet /\ gcpc = "gc_check"

\* the resolver leaves its critical section in this step
ProducerReturns == ppc = "cs" /\ ppc' = "idle"

FirstRecords(n) == [ k \in 1 .. n |-> k - 1 ]

\* every evicted record has had its deletion requested once, the one the
\* pass is busy with not yet
DeletionsRequestedOnce ==
    /\ gcpc = "gc_scan" => dbRequests = FirstRecords(removed)
    /\ gcpc = "gc_del" => dbRequests = FirstRecords(removed - 1)

\* C13: for each record evicted by runGC the deletion is requested exactly
\* once, and the step in which the deletion returns leaves the store and the
\* number of evicted records as they were and goes on to the next record,
\* whether the deletion succeeded or failed.
C13_DeletionOnceAndIgnored ==
    [][ /\ DeletionsRequestedOnce'
        /\ (gcpc = "gc_del" /\ dbRequests' # dbRequests)
              => (store' = store /\ removed' = removed /\ gci' = gci + 1) ]_vars

\* the scan of a pass is over, two records were evicted and a deletion failed
C13_Witness ==
    /\ gcpc = "gc_scan"
    /\ ~GCscanning
    /\ removed > 1
    /\ dbFailed

\* the workers that are about to send a reply
Sending == { r \in Readers : rpc[r] \in { "send_unlock", "send" } }

\* C15: when the privacy level read by api_history_clients is at least
\* PRIVACY_HIDE_DOMAINS_CLIENTS, its reply is the same for every state of the
\* store: empty history and clients arrays, no count, no name, no ip.
C15_PrivacyHidesClients ==
    \A r \in Sending :
        privacySeen[r] >= PRIVACY_HIDE_DOMAINS_CLIENTS =>
            /\ reply[r].history = << >>
            /\ reply[r].clients = << >>
            /\ reply[r].members = { "history", "clients" }
            /\ reply[r].code = 200

\* the privacy level hides the clients while the store holds queries of two clients
C15_Witness ==
    \E r \in Sending :
        /\ privacySeen[r] >= PRIVACY_HIDE_DOMAINS_CLIENTS
        /\ FirstDataSlot >= 0
        /\ clients[0].count > 0
        /\ clients[1].count > 0

\* C16: every reply of api_history and api_history_clients is a top-level
\* object; a successful reply has no error member; an error reply has an
\* error object with exactly the members key, message and hint, and the code.
C16_ReplyEnvelope ==
    \A r \in Sending :
        /\ reply[r].top = "object"
        /\ reply[r].code = 200 => "error" \notin reply[r].members
        /\ reply[r].kind = "error" =>
              /\ reply[r].members = { "error" }
              /\ reply[r].error = { "key", "message", "hint" }
              /\ reply[r].code = 401

\* no histogram slot holds a query
NoData == \A s \in Slots : ~(overTime[s].total > 0 \/ overTime[s].blocked > 0)

InPass == gcpc \in { "gc_lock", "gc_scan", "gc_del" }

\* C20, as stated: the last-run timestamp of a pass started at now is
\* now - (now mod gc_interval).
C20_LastRunAligned == InPass => lastGCrun = now - (now % GCinterval)

\* C20, amended: the last-run timestamp of a pass started at now is the
\* greatest multiple of gc_interval that is not later than now - GCdelay.
C20_LastRunAlignedAfterDelay ==
    InPass =>
        /\ lastGCrun % GCinterval = 0
        /\ lastGCrun <= now - GCdelay
        /\ now - GCdelay < lastGCrun + GCinterval

\* the scan of a pass that started on a multiple of gc_interval is over
C20_Witness ==
    /\ gcpc = "gc_scan"
    /\ ~GCscanning
    /\ removed > 0
    /\ now % GCinterval = 0
    /\ lastGCrun < now

\* C18 (as stated): at each decay a client whose count exceeds the threshold is
\* rate limited afterwards, whether or not it was before, and every other
\* client is not
C18_DecaySetsFlagFromCount ==
    [][ Decay => \A c \in ClientIDs :
                    clients'[c].rate_limited = (clients[c].rate_limit > config.rateLimitCount) ]_vars

\* C18 (amended): at each decay a client stays rate limited exactly if it was
\* rate limited before and its count exceeds the threshold; every other client
\* is not rate limited afterwards, and every count is reset
C18_DecayKeepsOrClearsFlag ==
    [][ Decay => \A c \in ClientIDs :
                    /\ clients'[c].rate_limited =
                          (clients[c].rate_limited /\ clients[c].rate_limit > config.rateLimitCount)
                    /\ clients'[c].rate_limit = 0 ]_vars

\* a decay of this round left a client rate limited
C18_Witness ==
    /\ gcpc = "gc_check"
    /\ lastRateLimitCleaner = now
    /\ \E c \in ClientIDs : clients[c].rate_limited /\ clients[c].rate_limit = 0

\* the counts the turnaround is computed for
TurnaroundCounts == 0 .. (2 * (rateLimitCount + 1) + 1)

\* C19: for every count the turnaround is the interval times the number of
\* whole thresholds in the count, less the time since the last decay; for a
\* count below the threshold it is never positive
C19_Turnaround ==
    \A count \in TurnaroundCounts :
        LET r == get_rate_limit_turnaround(count)
            elapsed == clock - lastRateLimitCleaner
        IN  /\ \E k \in 0 .. count :
                  /\ k * config.rateLimitCount <= count
                  /\ count < (k + 1) * config.rateLimitCount
                  /\ r = config.rateLimitInterval * k - elapsed
            /\ count < config.rateLimitCount => r <= 0

\* a rate-limited client whose count is below the threshold, some time after
\* the last decay
C19_Witness ==
    /\ clock > lastRateLimitCleaner
    /\ \E c \in ClientIDs :
          /\ clients[c].rate_limited
          /\ 0 < clients[c].rate_limit
          /\ clients[c].rate_limit < config.rateLimitCount
          /\ get_rate_limit_turnaround(clients[c].rate_limit) < 0

\* the housekeeper thread has returned
Terminated == gcpc = "done" /\ ~thread_running

ScenarioTimes == << 0, 100, 200, 700, 1300 >>

ScenarioStatuses == << "FORWARDED", "CACHE", "GRAVITY", "FORWARDED", "CACHE" >>

\* a retention window of 600 s, a pass every 50 s, buckets of 600 s
ScenarioSettings == [ maxHistory |-> 600, gcInterval |-> 50, bucketWidth |-> 600 ]

\* the domain of each query: the blocked one has a domain of its own
ScenarioDomain(k) == IF IsBlocked(ScenarioStatuses[k]) THEN 1 ELSE 0

\* the query that arrives now and is not recorded yet, 0 when there is none
ScenarioDue ==
    LET due == { k \in DOMAIN ScenarioTimes :
                   /\ ScenarioTimes[k] = clock
                   /\ \A i \in Ledger : queries[i].timestamp # clock }
    IN  IF due = {} THEN 0 ELSE CHOOSE k \in due : TRUE

\* the store starts empty at the first arrival, with room for the five queries
InitScenario == InitAt(ScenarioTimes[1], Len(ScenarioTimes), ScenarioSettings, 0, 0)

\* nothing happens until the next query arrives
ScenarioAdvance ==
    /\ ppc = "idle"
    /\ ScenarioDue = 0
    /\ \E k \in DOMAIN ScenarioTimes :
          /\ ScenarioTimes[k] > clock
          /\ \A j \in DOMAIN ScenarioTimes :
                ScenarioTimes[j] > clock => ScenarioTimes[k] <= ScenarioTimes[j]
          /\ clock' = ScenarioTimes[k]
    /\ UNCHANGED << config, authvars, resvars, thrvars, dbvars, store, lock, doGC, gcvars, ppc, apivars, histvars >>

\* a query arrives: the resolver takes the lock
ScenarioArrive == ScenarioDue # 0 /\ ProdLock

\* the resolver records the query that arrived
ScenarioAppend ==
    /\ ScenarioDue # 0
    /\ \E c \in RealClients, rt \in ReplyTypes :
          ProdAppend(c, ScenarioDomain(ScenarioDue), ScenarioStatuses[ScenarioDue], rt, "TYPE_A")

NextScenario == ScenarioAdvance \/ ScenarioArrive \/ ScenarioAppend \/ Collector

SpecScenario == InitScenario /\ [][NextScenario]_vars

\* the ledger holds the five queries and no pass has evicted any of them
ScenarioRecorded == counters.queries = Len(ScenarioTimes) /\ removed = 0

\* the buckets and the blocked domain once the five queries are recorded
ScenarioBuckets ==
    ScenarioRecorded =>
        /\ overTime[0] = [ timestamp |-> 0, total |-> 3, blocked |-> 1, cached |-> 1 ]
        /\ overTime[1].timestamp = 600 /\ overTime[1].total = 1
        /\ overTime[2].timestamp = 1200 /\ overTime[2].total = 1
        /\ domains[1] = [ count |-> 1, blockedcount |-> 1 ]

\* a pass with horizon 650 over the five queries ends
ScenarioPassEnds ==
    /\ gcpc = "gc_scan" /\ gcpc' = "loop"
    /\ mintime = 650
    /\ counters.queries = Len(ScenarioTimes)

\* C11: the five queries fill the buckets t=0 (total 3, blocked 1, cached 1),
\* t=600 (total 1) and t=1200 (total 1); a pass with horizon 650 evicts exactly
\* the first three, leaves the two later ones, lowers count and blocked count
\* of the blocked query's domain by one each, to zero, and drops bucket t=0
\* from the window
C11_WorkedExample ==
    [][ /\ ScenarioBuckets'
        /\ ScenarioPassEnds =>
              /\ removed = 3
              /\ counters'.queries = 2
              /\ queries'[0].timestamp = 700 /\ queries'[1].timestamp = 1300
              /\ queries'[0].status = "FORWARDED" /\ queries'[1].status = "CACHE"
              /\ domains'[1] = [ count |-> 0, blockedcount |-> 0 ]
              /\ overTime'[0].timestamp = 600
              /\ \A s \in Slots : overTime'[s].timestamp # 0 ]_vars

\* the scan of a pass with horizon 650 over the five queries has ended after
\* three evictions
C11_Witness ==
    /\ gcpc = "gc_scan" /\ ~GCscanning
    /\ mintime = 650
    /\ counters.queries = Len(ScenarioTimes)
    /\ removed = 3

\* runGC holds a horizon: between taking the lock and the end of the pass
HorizonFixed == gcpc \in { "gc_scan", "gc_del" }

ResourceCheck == lastResourceCheck' # lastResourceCheck

\* C22: with the disk check enabled, a check reports a shortage for a path
\* exactly if the sampled usage exceeds the threshold and is greater than the
\* usage of the previous sample of that path
C22_StorageShortageOnIncrease ==
    [][ (ResourceCheck /\ config.checkDisk > 0) =>
          \A p \in StoragePaths :
              shortage'[p] <=> (sampled'[p] > config.checkDisk /\ sampled'[p] > sampled[p]) ]_vars

\* a plateau above the threshold: the check has sampled the same usage as the
\* one before and has reported nothing for that path
C22_Witness ==
    \E p \in StoragePaths :
        /\ sampled[p] > config.checkDisk
        /\ LastUsage[p] = sampled[p]
        /\ ~shortage[p]
        /\ lastResourceCheck > RCinterval + StartTime

\* C23: a check reports a load shortage only if the sampled load is greater
\* than the load of the previous sample
C23_LoadShortageOnIncrease ==
    [][ (ResourceCheck /\ shortage'["load"]) => sampled'["load"] > sampled["load"] ]_vars

\* runGC takes a step that reads or writes the ledger: an eviction, the read
\* of the record's database id for the deletion call, or the compaction
RunGCAccess ==
    /\ gcpc \in { "gc_scan", "gc_del" }
    /\ (gcpc' # gcpc \/ gci' # gci)

\* C24: runGC reads and writes ledger records and aggregates only while it
\* holds the store lock; the database id given to delete_query_from_db is
\* read while the lock is held
C24_LedgerAccessUnderLock == [][ RunGCAccess => lock = "gc" ]_vars

\* runGC has released the lock in mid-pass for a deletion call
MidPassWindow == gcpc = "gc_del"

\* the records the running pass has not scanned
Unscanned == { i \in Ledger : i > gci }

\* the unscanned records of bucket s
UnscannedIn(s) == { i \in Unscanned : getOverTimeID(queries[i].timestamp) = s }

\* the unscanned records sent by client c or by a client it manages
UnscannedOf(c) ==
    { i \in Unscanned : queries[i].clientID = c \/ aliasclient_id(queries[i].clientID) = c }

\* in the window every scanned record is Unknown and the bucket totals, the
\* domain counters and the client counters hold the unscanned records only
EvictedRemoved ==
    MidPassWindow =>
        /\ \A i \in Ledger \ Unscanned : queries[i].status = "UNKNOWN"
        /\ \A s \in Slots : overTime[s].total = Cardinality(UnscannedIn(s))
        /\ \A d \in DomainIDs :
              /\ domains[d].count =
                   Cardinality({ i \in Unscanned : queries[i].domainID = d })
              /\ domains[d].blockedcount =
                   Cardinality({ i \in Unscanned : /\ queries[i].domainID = d
                                                    /\ IsBlocked(queries[i].status) })
        /\ \A c \in ClientIDs :
              /\ clients[c].count = Cardinality(UnscannedOf(c))
              /\ clients[c].blockedcount =
                   Cardinality({ i \in UnscannedOf(c) : IsBlocked(queries[i].status) })

\* C25: wherever runGC releases the lock in mid-pass, every record it has
\* scanned is Unknown and its contributions to the bucket totals and blocked
\* counts, the domain counters and the client counters are removed: the
\* aggregates are those of the unscanned records
C25_EvictedInvisible ==
    /\ EvictedRemoved
    /\ MidPassWindow =>
          \A s \in Slots :
              overTime[s].blocked =
                  Cardinality({ i \in UnscannedIn(s) : IsBlocked(queries[i].status) })

\* runGC evicts record gci in this step
Evicts == gcpc = "gc_scan" /\ gcpc' = "gc_del"

\* the records appended while the running pass had released the lock
AppendedInPass == { i \in Ledger : i >= passStart }

\* C26: a record appended while runGC has released the lock for a deletion
\* call is never evicted by that pass and is in the ledger, unchanged, after
\* the compaction; the length after the pass is the length before it plus
\* the records appended during it minus the records evicted
C26_WindowAppendsSurvive ==
    [][ /\ Evicts => gci \notin AppendedInPass
        /\ PassCompletes =>
              /\ \A i \in AppendedInPass :
                    /\ i - removed \in 0 .. (counters'.queries - 1)
                    /\ queries'[i - removed] = queries[i]
              /\ counters'.queries = passStart + Cardinality(AppendedInPass) - removed ]_vars

\* the scan of a pass that has evicted a record has ended, and a record was
\* appended in one of its windows
C26_Witness ==
    /\ gcpc = "gc_scan" /\ ~GCscanning
    /\ removed > 0
    /\ AppendedInPass # {}

\* the records whose aggregate contributions the running pass has reversed
Reversed == { dbRequests[k] : k \in DOMAIN dbRequests }

\* the compaction of this step keeps the records from index k on, in order
KeepsFrom(k) ==
    \A j \in 0 .. (counters'.queries - 1) : queries'[j] = queries[j + k]

\* C27: the records a pass removes from the ledger are exactly those whose
\* aggregate contributions it has reversed, also when a lookup of the scan
\* has returned NULL: the compaction either drops the first `removed` records
\* (memmove) or cuts the last `removed` off (no memmove), and the records it
\* drops are the reversed ones
C27_RemovedExactlyReversed ==
    [][ PassCompletes =>
          /\ counters'.queries = counters.queries - removed
          /\ \/ KeepsFrom(removed) /\ Reversed = 0 .. (removed - 1)
             \/ KeepsFrom(0) /\ Reversed = counters'.queries .. (counters.queries - 1) ]_vars

EvictStep == gcpc = "gc_scan" /\ gcpc' = "gc_del"

\* this step takes from every aggregate what the append of record q of
\* status st has added to it
AppendUndone(q, st) ==
    LET idx == getOverTimeID(q.timestamp)
        blocked == IF IsBlocked(st) THEN 1 ELSE 0
        cached == IF IsCached(st) THEN 1 ELSE 0
        counted == { q.clientID, aliasclient_id(q.clientID) }
    IN  /\ overTime' = [ overTime EXCEPT ![idx].total = @ - 1,
                                         ![idx].blocked = @ - blocked,
                                         ![idx].cached = @ - cached ]
        /\ domains' = [ domains EXCEPT ![q.domainID].count = @ - 1,
                                       ![q.domainID].blockedcount = @ - blocked ]
        /\ \A c \in ClientIDs :
              /\ clients'[c].count = clients[c].count - (IF c \in counted THEN 1 ELSE 0)
              /\ clients'[c].blockedcount =
                    clients[c].blockedcount - (IF c \in counted THEN blocked ELSE 0)
              /\ \A s \in Slots :
                    clients'[c].overTime[s] =
                        clients[c].overTime[s] - (IF c \in counted /\ s = idx THEN 1 ELSE 0)
        /\ counters'.status = [ counters.status EXCEPT ![st] = @ - 1 ]
        /\ counters'.reply = [ counters.reply EXCEPT ![q.reply] = @ - 1 ]
        /\ counters'.querytype = IF q.type \in CountedQueryTypes
                                 THEN [ counters.querytype EXCEPT ![q.type] = @ - 1 ]
                                 ELSE counters.querytype

\* C29: for every status, reply type and query type, the eviction of a record
\* takes from every aggregate exactly what its append has added: the bucket's
\* total, blocked and cached counts, the domain's count and blockedcount, the
\* client's count, blocked count and per-bucket count, and the status, reply
\* and query type counters are back at their values before the append
C29_EvictUndoesAppend ==
    [][ EvictStep => AppendUndone(queries[gci], queries[gci].status) ]_vars

\* the same for the records whose status is not a blocking one
EvictUndoesAppend_NotBlocked ==
    [][ EvictStep /\ ~IsBlocked(queries[gci].status)
          => AppendUndone(queries[gci], queries[gci].status) ]_vars

\* the producer leaves its critical section without having appended
MutateStep == ppc = "cs" /\ ppc' = "idle" /\ counters'.queries = counters.queries

\* this step moves the contributions of record q from status old to status
\* new in every aggregate, once, and changes nothing else
StatusMoved(q, old, new) ==
    LET idx == getOverTimeID(q.timestamp)
        blocked == (IF IsBlocked(new) THEN 1 ELSE 0) - (IF IsBlocked(old) THEN 1 ELSE 0)
        cached == (IF IsCached(new) THEN 1 ELSE 0) - (IF IsCached(old) THEN 1 ELSE 0)
        counted == { q.clientID, aliasclient_id(q.clientID) }
        removed1 == [ counters.status EXCEPT ![old] = @ - 1 ]
    IN  /\ overTime' = [ overTime EXCEPT ![idx].blocked = @ + blocked,
                                         ![idx].cached = @ + cached ]
        /\ domains' = [ domains EXCEPT ![q.domainID].blockedcount = @ + blocked ]
        /\ \A c \in ClientIDs :
              /\ clients'[c].count = clients[c].count
              /\ clients'[c].overTime = clients[c].overTime
              /\ clients'[c].blockedcount =
                    clients[c].blockedcount + (IF c \in counted THEN blocked ELSE 0)
        /\ counters' = [ counters EXCEPT !.status = [ removed1 EXCEPT ![new] = @ + 1 ] ]

\* C30: for every record and every pair of statuses (old, new), mutate_status
\* leaves all aggregates as if the record had been appended with the new
\* status: the old status's contributions to the blocked and cached counts of
\* the bucket, to the domain's and the client's blocked counts and to the
\* status counters are removed once and the new status's are added once; a
\* mutation to the same status changes nothing
C30_MutationAsAppended ==
    [][ MutateStep =>
          LET changed == { i \in Ledger : queries'[i] # queries[i] }
          IN  IF changed = {}
              THEN UNCHANGED << overTime, domains, clients, counters >>
              ELSE \E i \in changed :
                     /\ queries' = [ queries EXCEPT ![i].status = queries'[i].status ]
                     /\ StatusMoved(queries[i], queries[i].status, queries'[i].status) ]_vars

\* the ledger holds a record that was appended with a blocking status and is
\* now CACHE_STALE, and one that was appended by client 0 and is now REGEX:
\* statuses no append gives them
C30_Witness ==
    \E i, j \in Ledger :
        /\ queries[i].clientID = 1 /\ queries[i].status = "CACHE_STALE"
        /\ queries[j].clientID = 0 /\ queries[j].status = "REGEX"
        /\ domains[queries[j].domainID].blockedcount > 0

\* the record the scan evicts in this step belongs to a client or to a domain
\* that is not found
EvictsUnowned ==
    /\ EvictStep
    /\ \/ queries[gci].clientID \in notFound.client
       \/ queries[gci].domainID \in notFound.domain

\* C31: when the client or the domain of a record being evicted is not found,
\* only the decrements of that client or domain are omitted: the bucket's
\* total is lowered by one and its blocked count is lowered for a blocking
\* status, the reply, type and status counters are lowered, the counters of
\* the one that is found are lowered, the record is evicted, and the pass
\* continues with the next record
C31_MissingOwnerSkipped ==
    [][ /\ EvictsUnowned =>
            LET q == queries[gci]
                idx == getOverTimeID(q.timestamp)
            IN  /\ clients' = IF q.clientID \in notFound.client
                              THEN clients
                              ELSE evictClient(clients, q.clientID, idx, q.status)
                /\ domains' = IF q.domainID \in notFound.domain
                              THEN domains
                              ELSE evictDomain(domains, q.domainID, q.status)
                /\ overTime'[idx].total = overTime[idx].total - 1
                /\ IsBlocked(q.status) => overTime'[idx].blocked < overTime[idx].blocked
                /\ counters'.reply[q.reply] = counters.reply[q.reply] - 1
                /\ q.type \in CountedQueryTypes =>
                      counters'.querytype[q.type] = counters.querytype[q.type] - 1
                /\ counters'.status[q.status] = counters.status[q.status] - 1
                /\ queries'[gci].status = "UNKNOWN"
                /\ removed' = removed + 1
        /\ gcpc = "gc_del" /\ gcpc' # "gc_del" => gcpc' = "gc_scan" /\ gci' = gci + 1 ]_vars

\* a pass has evicted two records, the first one of a client or domain that
\* is not found
C31_Witness ==
    /\ gcpc = "gc_scan"
    /\ removed = 2
    /\ notFound # [ client |-> {}, domain |-> {} ]
    /\ \/ queries[0].clientID \in notFound.client
       \/ queries[0].domainID \in notFound.domain

\* no aggregate other than the blocked counts of the buckets is negative
NoNegative_ButBucketBlocked ==
    /\ \A b \in Slots : overTime[b].total >= 0
    /\ \A d \in DomainIDs : domains[d].count >= 0 /\ domains[d].blockedcount >= 0
    /\ \A c \in ClientIDs :
          /\ clients[c].count >= 0
          /\ clients[c].blockedcount >= 0
          /\ \A b \in Slots : clients[c].overTime[b] >= 0
    /\ \A st \in QueryStatuses : counters.status[st] >= 0
    /\ \A r \in ReplyTypes : counters.reply[r] >= 0
    /\ \A t \in CountedQueryTypes : counters.querytype[t] >= 0

\* C32: after any sequence of appends, status mutations and GC passes, with
\* appends in the lock-release windows of the passes, no aggregate is
\* negative: the buckets' total and blocked counts, the domains' count and
\* blockedcount, the clients' counts and the status, reply and query type
\* counters
C32_NoNegativeAggregate ==
    /\ NoNegative_ButBucketBlocked
    /\ \A b \in Slots : overTime[b].blocked >= 0

\* runGC begins in this step
PassStarts == gcpc = "gc_check" /\ gcpc' = "gc_lock"

\* the round of the loop ends without a pass in this step
RoundSkips == gcpc = "gc_check" /\ gcpc' = "loop"

C34_PassNotAbandoned ==
    [][ /\ InPass => InPass' \/ (PassCompletes /\ lock' # "gc" /\ gcDone' # "no")
        /\ gcpc' = "done" => gcpc \in { "loop", "gc_check", "done" } /\ lock # "gc"
        /\ gcpc = "done" => UNCHANGED << gcvars, resvars, dbvars, thrvars >> ]_vars

\* FTL is shutting down and runGC is executing: it has had a record deleted
\* and scans on
C34_Witness ==
    /\ killed
    /\ gcpc = "gc_scan"
    /\ dbRequests # << >>

\* C35: lastGCrun is always a multiple of GCinterval; when a pass ends the
\* time trigger is false for the time the pass started at, and a pass that the
\* time trigger starts records a later multiple than the one before, so each
\* aligned interval has at most one pass started by the time trigger
C35_OnePassPerInterval ==
    /\ [](lastGCrun % GCinterval = 0)
    /\ [][ /\ PassCompletes => ~(now - GCdelay - lastGCrun >= GCinterval)
           /\ PassStarts /\ ~doGC => lastGCrun' > lastGCrun ]_vars

\* a pass started by the time trigger in a later interval than the first has
\* ended, and the time trigger is false
C35_Witness ==
    /\ gcpc = "loop"
    /\ gcDone # "no"
    /\ ~doGC
    /\ lastGCrun >= StartTime + GCinterval
    /\ clock - GCdelay - lastGCrun < GCinterval

AuthStep == authvars' # authvars

\* check_response returned true for the response of a login
LoginAccepted == AuthStep /\ authReply'.kind = "login" /\ authReply'.correct

\* C37: a login's response is accepted by check_response only if it is the
\* stored response of a challenge that has not expired, and only if no
\* earlier login was accepted with it: a response is accepted at most once
C37_ResponseAcceptedOnce ==
    [][ LoginAccepted =>
            LET response == authReply'.response
            IN  /\ \E i \in ChallengeSlots : /\ challenges[i].response = response
                                             /\ challenges[i].valid_until >= clock
                /\ response \notin accepted ]_vars

\* a login presents a response that was accepted before, and is rejected
C37_Witness ==
    /\ authReply.kind = "login"
    /\ ~authReply.correct
    /\ authReply.code = 401
    /\ authReply.response \in accepted

\* a challenge was generated and sent
ChallengeStep == AuthStep /\ authReply'.kind = "challenge"

\* the slots whose challenge is empty or has expired
ExpiredChallenges == { j \in ChallengeSlots : challenges[j].valid_until < clock }

\* what api_auth does: with every slot holding an unexpired challenge it is
\* slot 0 that is replaced; otherwise the first empty or expired slot is
\* used and no unexpired challenge is overwritten
ChallengeReplacesFirst ==
    [][ ChallengeStep =>
            LET i == authReply'.slot
            IN  /\ \A j \in ChallengeSlots \ { i } : challenges'[j] = challenges[j]
                /\ challenges'[i].valid_until = clock + API_CHALLENGE_TIMEOUT
                /\ IF ExpiredChallenges = {}
                   THEN i = 0
                   ELSE i \in ExpiredChallenges /\ \A j \in ExpiredChallenges : i <= j ]_vars

\* C38: a challenge requested while every slot holds an unexpired challenge
\* replaces the oldest one, the one with the smallest valid_until; otherwise
\* it takes the first empty or expired slot and overwrites no unexpired
\* challenge
C38_OldestChallengeReplaced ==
    [][ ChallengeStep =>
            LET i == authReply'.slot
            IN  /\ \A j \in ChallengeSlots \ { i } : challenges'[j] = challenges[j]
                /\ IF ExpiredChallenges = {}
                   THEN \A j \in ChallengeSlots :
                            challenges[i].valid_until <= challenges[j].valid_until
                   ELSE i \in ExpiredChallenges /\ \A j \in ExpiredChallenges : i <= j ]_vars

\* every slot held an unexpired challenge and the one replaced was slot 0
YoungerChallengeReplaced ==
    /\ authReply.kind = "challenge"
    /\ authReply.slot = 0
    /\ \A j \in ChallengeSlots : challenges[j].valid_until >= clock
    /\ \E j \in ChallengeSlots : challenges[j].valid_until < clock + API_CHALLENGE_TIMEOUT
    /\ drawn > API_MAX_CHALLENGES

\* check_client_auth returned a session ID to an API endpoint
CheckSucceeds == AuthStep /\ authReply'.kind = "check" /\ authReply'.user_id >= 0

\* C39: check_client_auth returns a session ID only for a slot that is in
\* use, has not expired, and holds the remote address and the SID of the
\* request; that session is then valid until now + sessionTimeout and no
\* other session changes
C39_SessionRecognised ==
    [][ CheckSucceeds =>
            \A addr \in AddrInputs, sid \in SidInputs :
                AuthCheck(addr, sid) =>
                    LET user_id == authReply'.user_id
                    IN  /\ user_id \in SessionSlots
                        /\ auth_data[user_id].used
                        /\ auth_data[user_id].valid_until >= clock
                        /\ auth_data[user_id].remote_addr = addr
                        /\ auth_data[user_id].sid = sid
                        /\ auth_data' = [ auth_data EXCEPT
                                            ![user_id].valid_until = clock + config.sessionTimeout ]
                        /\ challenges' = challenges ]_vars

\* a session was recognised after its login and extended, next to another
\* session in use
C39_Witness ==
    /\ authReply.kind = "check"
    /\ authReply.user_id >= 0
    /\ auth_data[authReply.user_id].login_at < clock
    /\ auth_data[authReply.user_id].valid_until = clock + config.sessionTimeout
    /\ \E j \in SessionSlots \ { authReply.user_id } : auth_data[j].used

\* the slots a new session can take: unused, or holding an expired session
FreeSeats == { i \in SessionSlots : ~auth_data[i].used \/ auth_data[i].valid_until < clock }

\* C40: no more than API_MAX_CLIENTS sessions are in use: a correct login
\* while every slot holds an unexpired session is answered with 401 and
\* changes no session; otherwise the first slot that is unused or holds an
\* expired session becomes the new session, and no other slot changes
C40_SeatsLimited ==
    [][ LoginAccepted =>
            LET user_id == authReply'.user_id
            IN  IF FreeSeats = {}
                THEN /\ authReply'.code = 401
                     /\ user_id = API_AUTH_UNAUTHORIZED
                     /\ auth_data' = auth_data
                ELSE /\ authReply'.code = 200
                     /\ user_id \in FreeSeats
                     /\ \A j \in FreeSeats : user_id <= j
                     /\ auth_data'[user_id].used
                     /\ auth_data'[user_id].login_at = clock
                     /\ auth_data'[user_id].valid_until = clock + config.sessionTimeout
                     /\ \A j \in SessionSlots : auth_data[j].used =>
                            auth_data'[user_id].sid # auth_data[j].sid
                     /\ \A j \in SessionSlots \ { user_id } : auth_data'[j] = auth_data[j] ]_vars

\* a correct login was answered with 401, every slot holding an unexpired
\* session
C40_Witness ==
    /\ authReply.kind = "login"
    /\ authReply.correct
    /\ authReply.code = 401
    /\ \A i \in SessionSlots : auth_data[i].used /\ auth_data[i].valid_until >= clock

\* a login has taken slot 0 when the session of an earlier login had expired
ExpiredSeatReused ==
    /\ authReply.kind = "login"
    /\ authReply.user_id = 0
    /\ auth_data[0].login_at = clock
    /\ clock > StartTime + config.sessionTimeout
    /\ drawn = 4
    /\ ~auth_data[1].used

====
